---- MODULE Spec2Model ----
(***************************************************************************)
(* A model of the finance-dashboard ETL: the transactions loader           *)
(* (src/etl/load_transactions.py), the raw-file normalizer                 *)
(* (src/etl/normalize_transactions.py), the rules loader                   *)
(* (src/etl/load_rules.py) and the category pipeline and rollups of        *)
(* src/etl/build_rollups.py.                                               *)
(*                                                                         *)
(* Text is a sequence of one-character strings, so that lower-casing,      *)
(* substring and regex search, merchant normalisation and the delimiter-   *)
(* joined identity key are computed character by character.  SQL NULL /    *)
(* pandas NaN of a text column is the one-element sequence NULL; an        *)
(* optional number or date is <<>> (NULL) or <<v>>.  Amounts are exact     *)
(* two-decimal numbers, held as an integer number of cents; dates are      *)
(* integers yyyymmdd.                                                      *)
(*                                                                         *)
(* The scripts are run one at a time: a script that opens the database     *)
(* holds DuckDB's lock on the file until it ends, and the files of the     *)
(* data and rules directories are edited between the scripts.              *)
(***************************************************************************)
EXTENDS Integers, Sequences, FiniteSets, TLC

\* ------------------------------------------------------------------ text

NULL == <<"NULL">>
None == <<>>
Some(v) == <<v>>

Digits == <<"0","1","2","3","4","5","6","7","8","9">>
UpperCase == <<"A","B","C","D","E","F","G","H","I","J","K","L","M",
               "N","O","P","Q","R","S","T","U","V","W","X","Y","Z">>
LowerCase == <<"a","b","c","d","e","f","g","h","i","j","k","l","m",
               "n","o","p","q","r","s","t","u","v","w","x","y","z">>

\* The characters of the model in code-point order (the order of Python's
\* sorted() and of DuckDB's default binary collation).
Ascii == <<" ","#","$","(",")",",","-",".">> \o Digits \o UpperCase \o LowerCase \o <<"|">>

Range(s) == { s[i] : i \in 1..Len(s) }

CharIdx(c) == CHOOSE i \in 1..Len(Ascii) : Ascii[i] = c

LowerChar(c) ==
  IF c \in Range(UpperCase)
    THEN LowerCase[CHOOSE i \in 1..Len(UpperCase) : UpperCase[i] = c]
    ELSE c

\* str.lower() / SQL LOWER()
Lower(s) == [i \in 1..Len(s) |-> LowerChar(s[i])]

IsSpace(c) == c = " "

RECURSIVE LStrip(_)
LStrip(s) == IF s # <<>> /\ IsSpace(Head(s)) THEN LStrip(Tail(s)) ELSE s

RECURSIVE RStrip(_)
RStrip(s) ==
  IF s # <<>> /\ IsSpace(s[Len(s)]) THEN RStrip(SubSeq(s, 1, Len(s) - 1)) ELSE s

\* str.strip() / SQL TRIM()
Trim(s) == RStrip(LStrip(s))

\* Lexicographic order of two texts by code point.
RECURSIVE StrLess(_, _)
StrLess(a, b) ==
  IF b = <<>> THEN FALSE
  ELSE IF a = <<>> THEN TRUE
  ELSE IF Head(a) = Head(b) THEN StrLess(Tail(a), Tail(b))
  ELSE CharIdx(Head(a)) < CharIdx(Head(b))

\* str(int) / f"{int}"
RECURSIVE NatStr(_)
NatStr(n) == IF n < 10 THEN <<Digits[n + 1]>> ELSE NatStr(n \div 10) \o <<Digits[(n % 10) + 1]>>

IntStr(n) == IF n < 0 THEN <<"-">> \o NatStr(0 - n) ELSE NatStr(n)

Pad2(n) == IF n < 10 THEN <<"0">> \o NatStr(n) ELSE NatStr(n)

\* str(datetime.date): yyyy-mm-dd
DateStr(d) ==
  NatStr(d \div 10000) \o <<"-">> \o Pad2((d \div 100) % 100) \o <<"-">> \o Pad2(d % 100)

\* strftime('%Y-%m', date)
MonthStr(d) == NatStr(d \div 10000) \o <<"-">> \o Pad2((d \div 100) % 100)

\* POSITION(pat IN text) > 0 / a literal substring test
Contains(text, pat) ==
  \E k \in 0..(Len(text) - Len(pat)) :
    \A i \in 1..Len(pat) : text[k + i] = pat[i]

\* A regular-expression search.  The patterns of the model are literals in
\* which "." stands for any one character; a search succeeds when the
\* pattern matches at some offset of the text.
RegexSearch(text, pat) ==
  \E k \in 0..(Len(text) - Len(pat)) :
    \A i \in 1..Len(pat) : pat[i] = "." \/ text[k + i] = pat[i]

\* A regex search with re.IGNORECASE.
RegexSearchI(text, pat) == RegexSearch(Lower(text), Lower(pat))

\* ------------------------------------------------- merchant normalisation

STOPWORDS ==
  { <<"i","n","c">>, <<"i","n","c",".">>, <<"l","l","c">>, <<"l","l","c",".">>,
    <<"c","o">>, <<"c","o",".">>, <<"c","o","r","p">>, <<"c","o","r","p",".">>,
    <<"l","t","d">>, <<"l","t","d",".">>, <<"t","h","e">>,
    <<"s","t","o","r","e">>, <<"s","t","o","r","e","s">>,
    <<"c","o","m","p","a","n","y">>, <<"c","o","m","p","a","n","i","e","s">> }

IsAlnumLower(c) == c \in Range(LowerCase) \union Range(Digits)

\* re.sub(r"[^a-z0-9]+", " ", t).split(): the maximal runs of [a-z0-9].
\* cur is the token being read, acc the tokens read so far.
RECURSIVE Tokens(_, _, _)
Tokens(t, cur, acc) ==
  IF t = <<>> THEN (IF cur = <<>> THEN acc ELSE Append(acc, cur))
  ELSE IF IsAlnumLower(Head(t)) THEN Tokens(Tail(t), Append(cur, Head(t)), acc)
  ELSE Tokens(Tail(t), <<>>, IF cur = <<>> THEN acc ELSE Append(acc, cur))

\* " ".join(toks)
RECURSIVE JoinSpace(_)
JoinSpace(toks) ==
  IF toks = <<>> THEN <<>>
  ELSE IF Len(toks) = 1 THEN toks[1]
  ELSE toks[1] \o <<" ">> \o JoinSpace(Tail(toks))

normalize_merchant(text) ==
  IF text = NULL THEN <<>>
  ELSE JoinSpace(SelectSeq(Tokens(Lower(text), <<>>, <<>>), LAMBDA w : w \notin STOPWORDS))

\* ------------------------------------------------------------ the loader
\* src/etl/load_transactions.py

\* A file of the normalized directory, as pd.read_csv returns it, is a
\* sequence of rows [date, account_id, amount, description, category, memo,
\* tags]: date is None when pd.to_datetime(errors="coerce") yields NaT,
\* amount is None for NaN, a text cell is NULL when the CSV cell is empty.

\* .astype(str) of a text cell
AsStr(x) == IF x = NULL THEN <<"n","a","n">> ELSE x

\* An amount cell is Some(c), c the cents of the number pd.read_csv has
\* parsed, None for an empty cell, or, in a column pd.read_csv could not
\* parse as numbers, the text of the cell.
AmountText(t) == <<"text", t>>

\* isinstance(x, str)
IsStr(x) == Len(x) = 2

\* str.replace(c, "")
Replace(t, c) == SelectSeq(t, LAMBDA ch : ch # c)

RECURSIVE NatOf(_)
NatOf(ds) ==
  IF ds = <<>> THEN 0
  ELSE 10 * NatOf(SubSeq(ds, 1, Len(ds) - 1))
         + (CHOOSE n \in 0..9 : Digits[n + 1] = ds[Len(ds)])

IsDigits(ds) == \A i \in 1..Len(ds) : ds[i] \in Range(Digits)

\* The cents of the decimal ip.fp.
DecimalCents(ip, fp) ==
  100 * NatOf(ip) + (IF Len(fp) = 1 THEN 10 * NatOf(fp) ELSE NatOf(fp))

\* The decimal literal body, without its sign: digits, and at most one point.
UnsignedCents(body, dots) ==
  IF dots = {}
    THEN IF body # <<>> /\ IsDigits(body) THEN Some(DecimalCents(body, <<>>)) ELSE None
  ELSE IF Cardinality(dots) = 1
    THEN LET d == CHOOSE k \in dots : TRUE
         IN IF /\ Len(body) > 1
               /\ IsDigits(SubSeq(body, 1, d - 1))
               /\ IsDigits(SubSeq(body, d + 1, Len(body)))
               /\ Len(body) - d <= 2
              THEN Some(DecimalCents(SubSeq(body, 1, d - 1), SubSeq(body, d + 1, Len(body))))
              ELSE None
  ELSE None

SignedCents(neg, v) == IF v = None \/ ~neg THEN v ELSE Some(0 - v[1])

Unsigned(t) == IF t # <<>> /\ t[1] \in { "-", "+" } THEN Tail(t) ELSE t

\* float(x) of a text, in cents: the decimal literals with a sign or none
\* and at most two decimals; None where float raises.  (Exponents, inf and
\* nan, which float reads too, are in no file of the model.)
ParseFloat(t) ==
  SignedCents(t # <<>> /\ t[1] = "-",
              UnsignedCents(Unsigned(t),
                            { k \in 1..Len(Unsigned(t)) : Unsigned(t)[k] = "." }))

float(t) == ParseFloat(Trim(t))

\* to_int_cents: 0 for NaN; of a text, "$" and "," are removed and the rest
\* is stripped; int(round(float(x) * 100)), 0 where float raises.
to_int_cents(x) ==
  IF x = None THEN 0
  ELSE IF IsStr(x)
    THEN (IF float(Replace(Replace(x[2], "$"), ",")) = None THEN 0
          ELSE float(Replace(Replace(x[2], "$"), ","))[1])
  ELSE x[1]

\* pd.to_numeric(errors="coerce"): a text that is no number becomes NaN.
to_numeric(x) == IF x # None /\ IsStr(x) THEN float(x[2]) ELSE x

GroupKey(r) == <<r.date, r.account_id, r.amount_cents, r.merchant_norm>>

\* groupby(...).cumcount(): for each row, the number of earlier rows of the
\* frame in the same group.
RECURSIVE CumCountFrom(_, _, _)
CumCountFrom(df, counts, i) ==
  IF i > Len(df) THEN <<>>
  ELSE LET k == GroupKey(df[i])
           n == IF k \in DOMAIN counts THEN counts[k] ELSE 0
       IN <<n>> \o CumCountFrom(df, (k :> n + 1) @@ counts, i + 1)

\* The mutant of cumcount: the rows are numbered through, whatever their
\* group.
cumcount_ungrouped(df) == [i \in 1..Len(df) |-> i - 1]

cumcount(df) == CumCountFrom(df, <<>>, 1)

\* The mutant of compute_dup_seq: every row gets the same index.
compute_dup_seq_const(df) == [i \in 1..Len(df) |-> 1]

compute_dup_seq(df) == [i \in 1..Len(df) |-> cumcount(df)[i] + 1]

\* The mutant of KeyString: the account is left out of the key.
KeyStringNoAccount(date, account_id, amount_cents, merchant_norm, dup_seq) ==
  DateStr(date) \o <<"|">> \o IntStr(amount_cents)
    \o <<"|">> \o merchant_norm \o <<"|">> \o IntStr(dup_seq)

\* The pre-hash key string of make_txn_id.
KeyString(date, account_id, amount_cents, merchant_norm, dup_seq) ==
  DateStr(date) \o <<"|">> \o account_id \o <<"|">> \o IntStr(amount_cents)
    \o <<"|">> \o merchant_norm \o <<"|">> \o IntStr(dup_seq)

\* hashlib.sha256(key).hexdigest(): collision-resistant, so the digest of a
\* key is held as the key under a tag; equal digests mean equal keys.
sha256(key) == <<"sha256">> \o key

make_txn_id(row) ==
  sha256(KeyString(row.date, row.account_id, row.amount_cents, row.merchant_norm, row.dup_seq))

\* flexible_rename, lines 36-45: the header names a column may come under.
mapping_candidates ==
  [date        |-> <<"date", "Date", "posted", "Transaction Date">>,
   description |-> <<"description", "Description", "merchant", "Payee", "Name">>,
   amount      |-> <<"amount", "Amount", "amount_usd", "Amount (USD)", "Amount USD">>,
   account_id  |-> <<"account_id", "Account", "Account Id", "AccountId", "Acct">>,
   category    |-> <<"category", "Category">>,
   memo        |-> <<"memo", "Memo", "Notes", "Note">>,
   tags        |-> <<"tags", "Tags">>,
   is_transfer |-> <<"is_transfer", "IsTransfer", "Transfer">>]

\* str.lower of the header names the candidates and the files use that are
\* not in lower case already.
LowerNames ==
  { <<"Date", "date">>, <<"Transaction Date", "transaction date">>,
    <<"Description", "description">>, <<"Payee", "payee">>, <<"Name", "name">>,
    <<"Amount", "amount">>, <<"AMOUNT", "amount">>, <<"Amount (USD)", "amount (usd)">>,
    <<"Amount USD", "amount usd">>, <<"Account", "account">>,
    <<"Account Id", "account id">>, <<"AccountId", "accountid">>, <<"Acct", "acct">>,
    <<"Category", "category">>, <<"Memo", "memo">>, <<"Notes", "notes">>,
    <<"Note", "note">>, <<"Tags", "tags">>, <<"IsTransfer", "istransfer">>,
    <<"Transfer", "transfer">>, <<"TRANSFER", "transfer">> }

Lookup(pairs, c) ==
  IF \E p \in pairs : p[1] = c THEN (CHOOSE p \in pairs : p[1] = c)[2] ELSE c

LowerName(c) == Lookup(LowerNames, c)

\* One of the columns of S, None when there is none.
AnyOf(S) == IF S = {} THEN None ELSE Some(CHOOSE c \in S : TRUE)

\* flexible_rename, lines 49-53: the column a candidate names, under its own
\* name or in another case.
Named(cols, cand) ==
  IF cand \in cols THEN Some(cand)
  ELSE AnyOf({ c \in cols : LowerName(c) = LowerName(cand) })

\* flexible_rename, lines 48-53: the column of the file that is renamed to a
\* target, that of the first candidate that names one.
RECURSIVE FirstMatch(_, _, _)
FirstMatch(cols, cands, k) ==
  IF k > Len(cands) THEN None
  ELSE IF Named(cols, cands[k]) # None THEN Named(cols, cands[k])
  ELSE FirstMatch(cols, cands, k + 1)

\* The columns of a read file (a file of the model has a row, and a row of a
\* file is a record of the file's header names).
Columns(file) == IF file = <<>> THEN {} ELSE DOMAIN file[1]

\* flexible_rename, lines 46-53: colmap, as the source column of each target.
ColMap(cols) ==
  [t \in DOMAIN mapping_candidates |-> FirstMatch(cols, mapping_candidates[t], 1)]

\* flexible_rename, line 54: df.rename(columns=colmap).
Rename(file, src) ==
  LET targets == { t \in DOMAIN src : src[t] # None }
      sources == { src[t][1] : t \in targets }
  IN [i \in 1..Len(file) |->
        [c \in (DOMAIN file[i] \ sources) \cup targets |->
           IF c \in targets THEN file[i][src[c][1]] ELSE file[i][c]]]

flexible_rename(file) == Rename(file, ColMap(Columns(file)))

\* main, lines 144-147: the required columns the renamed file lacks.
req == { "date", "description", "amount", "account_id" }
missing(file) == req \ Columns(flexible_rename(file))

\* main, lines 158-159: a column the file lacks is a column of None.
Cell(r, col) == IF col \in DOMAIN r THEN r[col] ELSE NULL

\* _parse_is_transfer: the cell stripped and lowered is one of the texts of
\* true; a missing cell parses to False.
parse_is_transfer(x) ==
  Lower(Trim(x)) \in { <<"1">>, <<"t","r","u","e">>, <<"t">>, <<"y","e","s">>, <<"y">> }

\* main, line 150: the rows whose date parses.
DatedRows(frame) == SelectSeq(frame, LAMBDA r : r.date # None)

\* main, lines 149-154 and 158-161, on one row: the typed columns,
\* merchant_norm, and the columns the file may lack.
TypedRow(r) ==
  [date          |-> r.date[1],
   account_id    |-> r.account_id,
   amount_cents  |-> to_int_cents(r.amount),
   amount        |-> to_numeric(r.amount),
   description   |-> r.description,
   merchant_norm |-> normalize_merchant(AsStr(r.description)),
   category      |-> Cell(r, "category"),
   memo          |-> Cell(r, "memo"),
   tags          |-> Cell(r, "tags"),
   is_transfer   |-> parse_is_transfer(Cell(r, "is_transfer"))]

\* main, lines 155-156, on one row: dup_seq and txn_id.
IdRow(r, d) ==
  [txn_id        |-> make_txn_id([date |-> r.date, account_id |-> r.account_id,
                                  amount_cents |-> r.amount_cents,
                                  merchant_norm |-> r.merchant_norm, dup_seq |-> d]),
   dup_seq       |-> d,
   date          |-> r.date,
   account_id    |-> r.account_id,
   amount_cents  |-> r.amount_cents,
   amount        |-> r.amount,
   description   |-> r.description,
   merchant_norm |-> r.merchant_norm,
   category      |-> r.category,
   memo          |-> r.memo,
   tags          |-> r.tags,
   is_transfer   |-> r.is_transfer]

TypedRows(kept) == [i \in 1..Len(kept) |-> TypedRow(kept[i])]

WithIds(typed, seqs) == [i \in 1..Len(typed) |-> IdRow(typed[i], seqs[i])]

WithDupSeq(typed) == WithIds(typed, compute_dup_seq(typed))

\* main, lines 141-161: the frame df of one file, read and renamed, after
\* the derived columns are added (dup_seq is still a column of it).
StageRows(file) == WithDupSeq(TypedRows(DatedRows(flexible_rename(file))))

\* main, lines 163-165: df[out_cols], the frame registered as staging_df.
OutCols(frame) ==
  [i \in 1..Len(frame) |->
     [txn_id        |-> frame[i].txn_id,
      date          |-> frame[i].date,
      account_id    |-> frame[i].account_id,
      amount_cents  |-> frame[i].amount_cents,
      amount        |-> frame[i].amount,
      description   |-> frame[i].description,
      merchant_norm |-> frame[i].merchant_norm,
      category      |-> frame[i].category,
      memo          |-> frame[i].memo,
      tags          |-> frame[i].tags,
      is_transfer   |-> frame[i].is_transfer]]

Ids(t) == { t[i].txn_id : i \in 1..Len(t) }

\* The source rows of a MERGE carry pairwise distinct keys; with two source
\* rows of one key the statement raises (a second insert of a primary key,
\* or a second update of one target row).
UniqueIds(s) == \A i, j \in 1..Len(s) : s[i].txn_id = s[j].txn_id => i = j

\* The mutant of MergeInto: every staged row is inserted, matched or not.
MergeIntoInsertOnly(t, s) == t \o s

\* MERGE INTO transactions t USING staging_df s ON t.txn_id = s.txn_id:
\* a matched row takes every column of the staged row, in place; the
\* unmatched staged rows are appended in staging order.
MergeInto(t, s) ==
  LET src(id) == s[CHOOSE j \in 1..Len(s) : s[j].txn_id = id]
  IN [i \in 1..Len(t) |-> IF t[i].txn_id \in Ids(s) THEN src(t[i].txn_id) ELSE t[i]]
       \o SelectSeq(s, LAMBDA r : r.txn_id \notin Ids(t))

\* The mutant of MergeFailed: the rows written before the failure stay.
MergeFailedKeepsFirst(t, s) == MergeInto(t, SubSeq(s, 1, 1))

\* A MERGE statement that raises: the connection is in autocommit mode, the
\* statement is its own transaction and is rolled back as a whole.
MergeFailed(t, s) == t

\* --------------------------------------------------------- the normalizer
\* src/etl/normalize_transactions.py

\* A raw export is a sequence of rows [date, description, amount, category]:
\* date is None when it does not parse, amount is what _num_amount returns
\* (None when the text is no number), category is the text of the cell, NULL
\* in an export without a category column.

\* _account_id_from("chase", "checking")
AcctChecking == <<"C","H","E","C","K","I","N","G","_","J","O","N">>

\* repr of a float of two decimals: the integer part, a point, the decimals
\* without a trailing zero.
FloatStr(c) ==
  LET a == IF c < 0 THEN 0 - c ELSE c
      frac == a % 100
  IN (IF c < 0 THEN <<"-">> ELSE <<>>) \o NatStr(a \div 100) \o <<".">>
       \o (IF frac % 10 = 0 THEN NatStr(frac \div 10) ELSE Pad2(frac))

\* parse_chase_generic: the canonical rows of one raw file.
parse_chase_generic(raw) ==
  LET kept == SelectSeq(raw, LAMBDA r : r.date # None)
  IN [i \in 1..Len(kept) |->
        [date        |-> kept[i].date,
         account_id  |-> AcctChecking,
         amount      |-> IF kept[i].amount = None THEN Some(0) ELSE kept[i].amount,
         description |-> Trim(AsStr(kept[i].description)),
         category    |-> IF kept[i].category = NULL THEN NULL ELSE Trim(kept[i].category),
         memo        |-> NULL,
         tags        |-> NULL]]

\* _dupe_key_series, and the same key rebuilt by _load_existing_dupe_keys
\* (description.fillna("")).
DupeKey(r) ==
  DateStr(r.date[1]) \o <<"|">> \o r.account_id \o <<"|">> \o FloatStr(r.amount[1])
    \o <<"|">> \o normalize_merchant(IF r.description = NULL THEN <<>> ELSE r.description)

\* _load_existing_dupe_keys
ExistingDupeKeys(files) ==
  UNION { { DupeKey(files[p][i]) : i \in 1..Len(files[p]) } : p \in DOMAIN files }

\* A rule of category_rules.csv is [priority, match_type, pattern, category,
\* account_id, sign]; priority is None and a text cell NULL when empty.

\* The priority _load_category_rules gives a rule without one.
NormDefaultPriority == 1000

\* _load_category_rules: the cells as _apply_category_rules reads them.
LoadedRule(r) ==
  [priority   |-> IF r.priority = None THEN NormDefaultPriority ELSE r.priority[1],
   match_type |-> IF r.match_type = NULL THEN <<>> ELSE Trim(Lower(r.match_type)),
   pattern    |-> IF r.pattern = NULL THEN <<>> ELSE r.pattern,
   category   |-> IF r.category = NULL THEN <<>> ELSE Trim(r.category),
   sign       |-> IF r.sign = NULL \/ Trim(Lower(r.sign)) = <<>>
                    THEN <<"a","n","y">> ELSE Trim(Lower(r.sign)),
   account_id |-> IF r.account_id = NULL \/ Trim(r.account_id) = <<>>
                    THEN NULL ELSE Trim(r.account_id)]

\* sort_values(["priority"]): rules of one priority stay in file order.
RECURSIVE SortByPriority(_)
SortByPriority(rs) ==
  IF rs = <<>> THEN <<>>
  ELSE LET m == CHOOSE i \in 1..Len(rs) :
                  \A j \in 1..Len(rs) :
                    rs[i].priority < rs[j].priority \/ (rs[i].priority = rs[j].priority /\ i <= j)
       IN <<rs[m]>> \o SortByPriority(SubSeq(rs, 1, m - 1) \o SubSeq(rs, m + 1, Len(rs)))

load_category_rules(csv) ==
  SortByPriority([i \in 1..Len(csv.rows) |-> LoadedRule(csv.rows[i])])

\* The mask of one rule of _apply_category_rules over one row.
NormRuleMatches(row, r) ==
  /\ r.account_id # NULL => Lower(row.account_id) = Lower(r.account_id)
  /\ r.sign = <<"p","o","s","i","t","i","v","e">> => row.amount[1] > 0
  /\ r.sign = <<"n","e","g","a","t","i","v","e">> => row.amount[1] < 0
  /\ \/ /\ r.match_type = <<"c","o","n","t","a","i","n","s">>
        /\ RegexSearchI(row.description, r.pattern)
     \/ /\ r.match_type = <<"r","e","g","e","x">>
        /\ RegexSearchI(row.description, r.pattern)
     \/ /\ r.match_type = <<"m","e","r","c","h","a","n","t","_","n","o","r","m">>
        /\ Contains(normalize_merchant(row.description), Lower(r.pattern))

\* _apply_category_rules over one row: the first rule in priority order that
\* matches sets the category; with no match the row's own category stays.
ApplyRulesToRow(row, rules) ==
  LET hit == { i \in 1..Len(rules) : NormRuleMatches(row, rules[i]) }
  IN IF hit = {} THEN row
     ELSE [row EXCEPT !.category = rules[CHOOSE i \in hit : \A j \in hit : i <= j].category]

apply_category_rules(frame, csv) ==
  IF ~csv.present \/ csv.rows = <<>> THEN frame
  ELSE [i \in 1..Len(frame) |-> ApplyRulesToRow(frame[i], load_category_rules(csv))]

\* pd.concat(frames) over the raw files in the order order lists them.
RECURSIVE ConcatFrames(_, _)
ConcatFrames(files, order) ==
  IF order = <<>> THEN <<>>
  ELSE parse_chase_generic(files[Head(order)]) \o ConcatFrames(files, Tail(order))

\* batch_keys.duplicated(keep="first")
Duplicated(frame, i) == \E j \in 1..(i - 1) : DupeKey(frame[j]) = DupeKey(frame[i])

MinOf(S) == CHOOSE x \in S : \A y \in S : x <= y
MaxOf(S) == CHOOSE x \in S : \A y \in S : x >= y

\* normalize_all, lines 261-276: the batch after both de-duplications.
DedupedBatch(frame, existing) ==
  LET idx == { i \in 1..Len(frame) :
                 ~Duplicated(frame, i) /\ DupeKey(frame[i]) \notin existing }
      RECURSIVE Pick(_)
      Pick(i) == IF i > Len(frame) THEN <<>>
                 ELSE (IF i \in idx THEN <<frame[i]>> ELSE <<>>) \o Pick(i + 1)
  IN Pick(1)

\* normalize_all, lines 283-289: the file the batch is written to.
OutputPath(batch) ==
  LET ds == { batch[i].date[1] : i \in 1..Len(batch) } IN <<MinOf(ds), MaxOf(ds)>>

\* Among the texts pd.read_csv reads as a missing value.
NaValues == { <<>>, <<"n","a","n">>, <<"N","A">>, <<"n","u","l","l">> }

\* A text cell after df.to_csv and pd.read_csv: None and the missing-value
\* texts come back as a missing value.
CsvCell(x) == IF x = NULL \/ x \in NaValues THEN NULL ELSE x

\* df.to_csv(nested_path) as the loader's pd.read_csv returns it.
WrittenCsv(batch) ==
  [i \in 1..Len(batch) |->
     [date        |-> batch[i].date,
      account_id  |-> CsvCell(batch[i].account_id),
      amount      |-> batch[i].amount,
      description |-> CsvCell(batch[i].description),
      category    |-> CsvCell(batch[i].category),
      memo        |-> CsvCell(batch[i].memo),
      tags        |-> CsvCell(batch[i].tags)]]

\* ------------------------------------------------- the category pipeline
\* src/etl/build_rollups.py, lines 148-317

Uncategorized == <<"U","n","c","a","t","e","g","o","r","i","z","e","d">>

\* The priority the rules CTE gives a rule without one.
ViewDefaultPriority == 9999

\* COALESCE of a list of text values
RECURSIVE Coalesce(_)
Coalesce(xs) ==
  IF xs = <<>> THEN NULL ELSE IF Head(xs) # NULL THEN Head(xs) ELSE Coalesce(Tail(xs))

ContainsType == <<"c","o","n","t","a","i","n","s">>
RegexType == <<"r","e","g","e","x">>

\* The CTE rules: the rows of category_rules with a category, match_type and
\* pattern lower-cased, the pattern trimmed.
RulesCTE(tbl) ==
  LET kept == SelectSeq(tbl.rows, LAMBDA r : r.category # NULL /\ Trim(r.category) # <<>>)
  IN [i \in 1..Len(kept) |->
        [match_type |-> IF kept[i].match_type = NULL THEN ContainsType
                        ELSE Lower(kept[i].match_type),
         pattern    |-> IF kept[i].pattern = NULL THEN NULL ELSE Trim(Lower(kept[i].pattern)),
         category   |-> kept[i].category,
         prio       |-> IF kept[i].priority = None THEN ViewDefaultPriority
                        ELSE kept[i].priority[1]]]

\* The CTE base: one row per row of transactions, numbered in table order;
\* base_category is the stored category, or the literal when the table has
\* no such column; desc_src is LOWER(COALESCE(description, memo, '')).
BaseCTE(tx, has_tx_category) ==
  [i \in 1..Len(tx) |->
     [rid           |-> i,
      base_category |-> IF has_tx_category THEN tx[i].category ELSE Uncategorized,
      txn_id        |-> tx[i].txn_id,
      date          |-> tx[i].date,
      account_id    |-> tx[i].account_id,
      amount_cents  |-> tx[i].amount_cents,
      amount        |-> tx[i].amount,
      description   |-> tx[i].description,
      merchant_norm |-> tx[i].merchant_norm,
      memo          |-> tx[i].memo,
      tags          |-> tx[i].tags,
      desc_src      |-> Lower(Coalesce(<<tx[i].description, tx[i].memo, <<>>>>))]]

\* date_pred
date_pred(b, o) == o.date = None \/ b.date = o.date[1]

\* amount_pred: CAST(ROUND(o.amount * 100) AS BIGINT) = b.amount_cents; with
\* o.amount NULL the comparison is NULL and the join condition does not hold.
amount_pred(b, o) == o.amount # None /\ o.amount[1] = b.amount_cents

\* The join condition of the CTE ov.
OvJoin(b, o) ==
  /\ o.active = TRUE
  /\ o.description_regex # NULL
  /\ RegexSearch(b.desc_src, o.description_regex)
  /\ date_pred(b, o)
  /\ amount_pred(b, o)

\* ORDER BY category, NULLS LAST
CatBefore(c1, c2) == c1 # NULL /\ (c2 = NULL \/ StrLess(c1, c2))

\* ORDER BY o.category
RECURSIVE SortOverrides(_)
SortOverrides(os) ==
  IF os = <<>> THEN <<>>
  ELSE LET m == CHOOSE i \in 1..Len(os) :
                  \A j \in 1..Len(os) :
                    CatBefore(os[i].category, os[j].category)
                      \/ (~CatBefore(os[j].category, os[i].category) /\ i <= j)
       IN <<os[m]>> \o SortOverrides(SubSeq(os, 1, m - 1) \o SubSeq(os, m + 1, Len(os)))

\* The mutant of OvRows: the matching overrides numbered in table order.
OvRowsInTableOrder(b, tbl) ==
  LET matching == SelectSeq(tbl.rows, LAMBDA o : OvJoin(b, o))
  IN [k \in 1..Len(matching) |->
        [rid |-> b.rid, override_category |-> matching[k].category, rn |-> k]]

\* The rows of the CTE ov for one row of base.
OvRows(b, tbl) ==
  LET sorted == SortOverrides(SelectSeq(tbl.rows, LAMBDA o : OvJoin(b, o)))
  IN [k \in 1..Len(sorted) |->
        [rid |-> b.rid, override_category |-> sorted[k].category, rn |-> k]]

\* The join condition of the CTE hits.
HitsJoin(b, r) ==
  /\ r.pattern # NULL
  /\ \/ (r.match_type = RegexType /\ RegexSearch(b.desc_src, r.pattern))
     \/ (r.match_type = ContainsType /\ Contains(b.desc_src, r.pattern))

\* ORDER BY r.prio, LENGTH(r.pattern) DESC, r.category
RuleBefore(r1, r2) ==
  \/ r1.prio < r2.prio
  \/ r1.prio = r2.prio /\ Len(r1.pattern) > Len(r2.pattern)
  \/ r1.prio = r2.prio /\ Len(r1.pattern) = Len(r2.pattern) /\ StrLess(r1.category, r2.category)

RECURSIVE SortRules(_)
SortRules(rs) ==
  IF rs = <<>> THEN <<>>
  ELSE LET m == CHOOSE i \in 1..Len(rs) :
                  \A j \in 1..Len(rs) :
                    RuleBefore(rs[i], rs[j]) \/ (~RuleBefore(rs[j], rs[i]) /\ i <= j)
       IN <<rs[m]>> \o SortRules(SubSeq(rs, 1, m - 1) \o SubSeq(rs, m + 1, Len(rs)))

\* The rows of the CTE hits for one row of base.
HitsRows(b, rules) ==
  LET sorted == SortRules(SelectSeq(rules, LAMBDA r : HitsJoin(b, r)))
  IN [k \in 1..Len(sorted) |->
        [rid |-> b.rid, rule_category |-> sorted[k].category, rn |-> k]]

\* The mutant of ResolvedCategory: the rule outranks the override.
ResolvedCategoryRuleFirst(override_category, rule_category, base_category) ==
  Coalesce(<<rule_category, override_category, base_category, Uncategorized>>)

\* COALESCE(o.override_category, h.rule_category, b.base_category,
\* 'Uncategorized') of the final SELECT.
ResolvedCategory(override_category, rule_category, base_category) ==
  Coalesce(<<override_category, rule_category, base_category, Uncategorized>>)

\* The mutant of LeftJoined: the row of NULLs is kept beside the matching rows.
LeftJoinedKeepNulls(matches, nulls) == <<nulls>> \o matches

\* A LEFT JOIN of one row: the matching rows, or one row of NULLs.
LeftJoined(matches, nulls) == IF matches = <<>> THEN <<nulls>> ELSE matches

RECURSIVE FlattenSeq(_)
FlattenSeq(ss) == IF ss = <<>> THEN <<>> ELSE Head(ss) \o FlattenSeq(Tail(ss))

\* The rows the final SELECT yields for one row of base, under the view
\* definition def = [rules_ok, overrides_available, has_tx_category].
ViewRowsOf(b, def, rules_tbl, ov_tbl) ==
  LET hs == IF def.rules_ok
              THEN LeftJoined(SelectSeq(HitsRows(b, RulesCTE(rules_tbl)), LAMBDA h : h.rn = 1),
                              [rid |-> b.rid, rule_category |-> NULL, rn |-> 1])
              ELSE <<[rid |-> b.rid, rule_category |-> NULL, rn |-> 1]>>
      os == IF def.overrides_available
              THEN LeftJoined(SelectSeq(OvRows(b, ov_tbl), LAMBDA o : o.rn = 1),
                              [rid |-> b.rid, override_category |-> NULL, rn |-> 1])
              ELSE <<[rid |-> b.rid, override_category |-> NULL, rn |-> 1]>>
  IN FlattenSeq([h \in 1..Len(hs) |->
       [o \in 1..Len(os) |->
          [category      |-> ResolvedCategory(os[o].override_category, hs[h].rule_category,
                                              b.base_category),
           txn_id        |-> b.txn_id,
           date          |-> b.date,
           account_id    |-> b.account_id,
           amount_cents  |-> b.amount_cents,
           amount        |-> b.amount,
           description   |-> b.description,
           merchant_norm |-> b.merchant_norm,
           memo          |-> b.memo,
           tags          |-> b.tags]]])

\* The rows of the view transactions_with_category, defined as def, over the
\* tables as they are.
ViewRows(def, tx, rules_tbl, ov_tbl) ==
  LET base == BaseCTE(tx, def.has_tx_category)
  IN FlattenSeq([i \in 1..Len(base) |-> ViewRowsOf(base[i], def, rules_tbl, ov_tbl)])

\* Lines 165-189: the definition build_rollups gives the view.
ViewDefFor(has_tx_category, rules_tbl, ov_tbl) ==
  [rules_ok |-> rules_tbl.present,
   overrides_available |-> ov_tbl.present,
   has_tx_category |-> has_tx_category]

\* ------------------------------------------------------------ the rollups
\* src/etl/build_rollups.py, lines 337-393

\* The mutant of JoinedWithDim: the join without the WHERE clause.
JoinedWithDimUnfiltered(rows, dim) ==
  FlattenSeq([i \in 1..Len(rows) |->
    LET m == SelectSeq(dim.rows, LAMBDA cd : cd.category # NULL /\ cd.category = rows[i].category)
    IN [k \in 1..(IF m = <<>> THEN 1 ELSE Len(m)) |->
          [month |-> MonthStr(rows[i].date), amt |-> rows[i].amount_cents,
           category |-> rows[i].category,
           is_transfer |-> IF m = <<>> THEN None ELSE m[k].is_transfer]]])

\* FROM transactions_with_category twc LEFT JOIN category_dim cd ON
\* cd.category = twc.category, and the WHERE clause the script adds when
\* category_dim has the column is_transfer.
JoinedWithDim(rows, dim) ==
  LET cds(v) == SelectSeq(dim.rows, LAMBDA cd : cd.category # NULL /\ cd.category = v.category)
      joined(v) == LET m == cds(v)
                   IN IF m = <<>>
                        THEN <<[month |-> MonthStr(v.date), amt |-> v.amount_cents,
                                category |-> v.category, is_transfer |-> None]>>
                        ELSE [k \in 1..Len(m) |->
                                [month |-> MonthStr(v.date), amt |-> v.amount_cents,
                                 category |-> v.category, is_transfer |-> m[k].is_transfer]]
      all == FlattenSeq([i \in 1..Len(rows) |-> joined(rows[i])])
  IN IF dim.has_flag THEN SelectSeq(all, LAMBDA r : r.is_transfer # Some(TRUE)) ELSE all

\* SUM over the rows of a group, amounts in cents.
RECURSIVE Sum(_)
Sum(xs) == IF xs = <<>> THEN 0 ELSE Head(xs) + Sum(Tail(xs))

\* ORDER BY 1 over the distinct texts of a set
RECURSIVE SortTexts(_)
SortTexts(S) ==
  IF S = {} THEN <<>>
  ELSE LET m == CHOOSE x \in S : \A y \in S \ {x} : StrLess(x, y)
       IN <<m>> \o SortTexts(S \ {m})

\* The SELECT of monthly_cashflow over the rows of t.
CashflowOf(t) ==
  LET months == SortTexts({ t[i].month : i \in 1..Len(t) })
  IN [k \in 1..Len(months) |->
        LET g == SelectSeq(t, LAMBDA r : r.month = months[k])
        IN [month        |-> months[k],
            income       |-> Sum([i \in 1..Len(g) |-> IF g[i].amt > 0 THEN g[i].amt ELSE 0]),
            spending     |-> Sum([i \in 1..Len(g) |-> IF g[i].amt < 0 THEN g[i].amt ELSE 0]),
            net_cashflow |-> Sum([i \in 1..Len(g) |-> g[i].amt])]]

\* The SELECT of monthly_actuals_by_category over the rows of t.
ActualsOf(t) ==
  LET cat(r) == IF r.category = NULL THEN Uncategorized ELSE r.category
      months == SortTexts({ t[i].month : i \in 1..Len(t) })
      ofMonth(m) ==
        LET cats == SortTexts({ cat(t[i]) : i \in { j \in 1..Len(t) : t[j].month = m } })
        IN [c \in 1..Len(cats) |->
              LET g == SelectSeq(t, LAMBDA r : r.month = m /\ cat(r) = cats[c])
              IN [month         |-> m,
                  category      |-> cats[c],
                  actual_signed |-> Sum([i \in 1..Len(g) |-> g[i].amt]),
                  spending      |-> Sum([i \in 1..Len(g) |-> IF g[i].amt < 0 THEN 0 - g[i].amt ELSE 0])]]
  IN FlattenSeq([k \in 1..Len(months) |-> ofMonth(months[k])])

\* ------------------------------------------------------- the rules loader
\* src/etl/load_rules.py

\* A category_dim.csv is [present, has_flag, rows]: has_flag tells whether
\* the file has the column is_transfer, a row is [category, is_transfer] with
\* the cell's text.  A row of the table category_dim holds is_transfer as
\* None for NULL, Some(TRUE) or Some(FALSE).

TrueTexts == { <<"1">>, <<"t","r","u","e">> }

\* load_category_dim, lines 37-55: the SELECT over the CSV.
DimFromCsv(csv) ==
  [i \in 1..Len(csv.rows) |->
     [category    |-> IF csv.rows[i].category = NULL THEN NULL ELSE Trim(csv.rows[i].category),
      is_transfer |-> Some(csv.rows[i].is_transfer # NULL
                             /\ Lower(csv.rows[i].is_transfer) \in TrueTexts)]]

\* CREATE UNIQUE INDEX ux_category_dim ON category_dim(category) succeeds.
UniqueCategories(rows) ==
  \A i, j \in 1..Len(rows) :
    (rows[i].category # NULL /\ rows[i].category = rows[j].category) => i = j

\* build_rollups, lines 101-105: SELECT * FROM read_csv_auto, the cells as
\* the reader types them (a column of true/false texts is BOOLEAN, an empty
\* cell is NULL).
DimAsRead(csv) ==
  [i \in 1..Len(csv.rows) |->
     [category    |-> csv.rows[i].category,
      is_transfer |-> IF ~csv.has_flag \/ csv.rows[i].is_transfer = NULL THEN None
                      ELSE Some(Lower(csv.rows[i].is_transfer) \in TrueTexts)]]

\* A category_overrides.csv row is [active, date, description_regex, amount,
\* category]: active is the cell's text, date None or the day, amount None
\* or the amount in cents (ROUND(amount * 100) of the DOUBLE the table holds).

ActiveTexts == { <<"1">>, <<"t","r","u","e">>, <<"t">>, <<"y","e","s">>, <<"y">> }

\* Lines 154-179: the SELECT that fills category_overrides.
OverridesFromCsv(csv) ==
  [i \in 1..Len(csv.rows) |->
     LET o == csv.rows[i]
     IN [active            |-> o.active # NULL /\ Lower(Trim(o.active)) \in ActiveTexts,
         date              |-> o.date,
         description_regex |-> IF o.description_regex = NULL THEN NULL
                               ELSE Trim(o.description_regex),
         amount            |-> o.amount,
         category          |-> IF o.category = NULL THEN NULL ELSE Trim(o.category)]]

\* ----------------------------------------------------------------- state

VARIABLES
  raw_files,          \* transactions/raw/chase/checking: file name -> rows
  rules_csv,          \* rules/category_rules.csv: [present, rows]
  overrides_csv,      \* rules/category_overrides.csv: [present, rows]
  dim_csv,            \* rules/category_dim.csv: [present, has_flag, rows]
  norm_files,         \* transactions/normalized: path -> rows
  wrote,              \* the path the last normalize_all wrote, None if none
  transactions,       \* the table transactions, rows in insertion order
  tx_has_category,    \* whether the table has the column category
  tx_columns,         \* the names of the table's columns
  df,                 \* main's frame of the file being merged
  run,                \* the loader process: [pc, i]
  rerun_of,           \* Some(table at the end of the previous run) while the
                      \* running loader repeats that run over unchanged files
  category_rules,     \* the table category_rules: [present, rows]
  category_overrides, \* the table category_overrides: [present, rows]
  category_dim,       \* the table category_dim: [present, has_flag, rows]
  view_def,           \* how transactions_with_category was last defined
  monthly_cashflow,   \* the table monthly_cashflow
  monthly_actuals,    \* the table monthly_actuals_by_category
  last_op,            \* the script that ran last
  sample_csv,         \* DATA_DIR/sample_transactions.csv: [present, rows]
  second,             \* a loader process started while another one runs
  acct_csv,           \* rules/account_dim.csv: [present, rows]
  bal_files,          \* DATA_DIR/balances: the rows of the files, in sorted order
  account_dim,        \* the table account_dim: [present, rows]
  balance_snapshot,   \* the table balance_snapshot: [present, rows]
  monthly_net_worth,  \* the table monthly_net_worth
  pos_files,          \* positions/normalized: a sequence of [mtime, rows]
  positions,          \* the table positions, as committed: a set of rows
  pos_txn             \* the process of load_positions: its pc, the table when
                      \* it began, its staging and the table in its transaction

vars == <<raw_files, rules_csv, overrides_csv, dim_csv, norm_files, wrote, transactions, tx_has_category, df, run,
          rerun_of, category_rules, category_overrides, category_dim, view_def,
          monthly_cashflow, monthly_actuals, last_op, tx_columns, sample_csv, second,
          acct_csv, bal_files, account_dim, balance_snapshot, monthly_net_worth,
          pos_files, positions, pos_txn>>

rulesDir == <<rules_csv, overrides_csv, dim_csv>>
fileVars == <<raw_files, rulesDir, norm_files, wrote>>
loaderVars == <<transactions, df, run, rerun_of>>
rulesVars == <<category_rules, category_overrides, category_dim>>
rollupVars == <<view_def, monthly_cashflow, monthly_actuals>>
balanceVars == <<acct_csv, bal_files, account_dim, balance_snapshot, monthly_net_worth>>
positionVars == <<pos_files, positions, pos_txn>>
sideVars == <<sample_csv, second, balanceVars, positionVars>>

\* ---------------------------------------------------------------- bounds

\* The most rows of one file.
MaxRows == 2

\* ------------------------------------------------------- the input values

Dates == { 20240301, 20240402 }

DescSB    == <<"S","B">>
DescSbCo  == <<"S","b"," ","C","o",".">>
DescXY1   == <<"X","Y"," ","#","1">>

AcctCHK   == <<"C","H","K">>
AcctPipe  == <<"A","|","1">>

MemoM     == <<"m">>

FileRow(d, a, c, desc, cat, memo) ==
  [date |-> Some(d), account_id |-> a, amount |-> Some(c), description |-> desc,
   category |-> cat, memo |-> memo, tags |-> NULL]

\* The rows the files of the loader's runs are made of: two rows that agree on
\* (date, account_id, amount_cents, merchant_norm) and differ in description
\* and memo, and a row of another day.
LoaderRows ==
  { FileRow(20240301, AcctCHK, -450, DescSB, NULL, NULL),
    FileRow(20240301, AcctCHK, -450, DescSbCo, NULL, MemoM),
    FileRow(20240402, AcctCHK, 1200, DescXY1, NULL, NULL) }

SeqsUpTo(S, n) == UNION { [1..k -> S] : k \in 0..n }

\* The names a file of the normalized directory may have:
\* transactions_<from>_to_<to>.csv, held as <<from, to>>.
Paths == { <<20240301, 20240301>>, <<20240301, 20240402>> }

PathLess(p, q) == p[1] < q[1] \/ (p[1] = q[1] /\ p[2] < q[2])

\* sorted(glob.glob(...))
RECURSIVE SortPaths(_)
SortPaths(S) ==
  IF S = {} THEN <<>>
  ELSE LET m == CHOOSE p \in S : \A q \in S \ {p} : PathLess(p, q)
       IN <<m>> \o SortPaths(S \ {m})

csvs == SortPaths(DOMAIN norm_files)

staging_df == OutCols(df)

NoTable == [present |-> FALSE, rows |-> <<>>]

\* The columns of transactions as main creates the table, as init_db.py
\* creates it, and as load_csv.py inserts into it.
MainCols ==
  { "txn_id", "date", "account_id", "amount_cents", "amount", "description",
    "merchant_norm", "category", "memo", "tags", "is_transfer" }
InitDbCols == MainCols \cup { "subcategory" }
SampleCols ==
  { "txn_id", "date", "account_id", "merchant", "memo", "amount", "category",
    "subcategory", "tags" }

\* No second loader process was started.
NoSecond == [pc |-> "none", batch |-> <<>>]

\* No transaction of load_positions is open.
NoTxn == [pc |-> "none", began |-> {}, staging |-> {}, rows |-> {}]

\* A database and a data directory without balances and without positions.
NoBalances ==
  /\ acct_csv = NoTable
  /\ bal_files = <<>>
  /\ account_dim = NoTable
  /\ balance_snapshot = NoTable
  /\ monthly_net_worth = <<>>

NoPositions ==
  /\ pos_files = <<>>
  /\ positions = {}
  /\ pos_txn = NoTxn
NoDim == [present |-> FALSE, has_flag |-> FALSE, rows |-> <<>>]

\* -------------------------------------------------- the loader's steps

\* A new file is written to the normalized directory while no loader runs.
WriteNormalizedFile ==
  /\ run.pc # "loop"
  /\ \E p \in Paths \ DOMAIN norm_files, rows \in SeqsUpTo(LoaderRows, MaxRows) \ { <<>> } :
       /\ norm_files' = (p :> rows) @@ norm_files
       /\ wrote' = Some(p)
  /\ run' = [pc |-> "idle", i |-> 1, total_rows |-> 0]
  /\ rerun_of' = None
  /\ df' = <<>>
  /\ last_op' = "write_file"
  /\ UNCHANGED <<raw_files, rulesDir, transactions, tx_has_category, tx_columns,
                 rulesVars, rollupVars, sideVars>>

\* _migrate_drop_subcategory, lines 103-105: the table is rebuilt from
\* every column but subcategory, row for row.
migrate_drop_subcategory(t) ==
  [i \in 1..Len(t) |-> [c \in DOMAIN t[i] \ { "subcategory" } |-> t[i][c]]]

\* main, lines 116-139: the table exists, a table with the column
\* subcategory is rebuilt without it, the files are listed.  The objects
\* _drop_all_dependents finds depend on what duckdb_dependencies() lists, so
\* the view over the table is dropped or stays.  A run that starts where a
\* completed run ended, the files untouched, repeats it.
StartRun ==
  /\ run.pc # "loop"
  /\ DOMAIN norm_files # {}
  /\ run' = [pc |-> "loop", i |-> 1, total_rows |-> 0]
  /\ rerun_of' = IF run.pc = "report" THEN Some(transactions) ELSE None
  /\ df' = <<>>
  /\ last_op' = "load_transactions"
  /\ IF "subcategory" \in tx_columns
       THEN /\ transactions' = migrate_drop_subcategory(transactions)
            /\ tx_columns' = tx_columns \ { "subcategory" }
            /\ view_def' \in { view_def, None }
       ELSE UNCHANGED <<transactions, tx_columns, view_def>>
  /\ UNCHANGED <<fileVars, tx_has_category, rulesVars, monthly_cashflow, monthly_actuals,
                 sideVars>>

\* main, lines 140-188, one iteration: the file is read and staged, and the
\* MERGE statement commits.
MergeFile ==
  /\ run.pc = "loop"
  /\ run.i <= Len(csvs)
  /\ tx_has_category
  /\ tx_columns = MainCols
  /\ missing(norm_files[csvs[run.i]]) = {}
  /\ LET frame == StageRows(norm_files[csvs[run.i]])
     IN /\ UniqueIds(frame)
        /\ df' = frame
        /\ transactions' = MergeInto(transactions, OutCols(frame))
        /\ run' = [run EXCEPT !.i = run.i + 1, !.total_rows = run.total_rows + Len(frame)]
  /\ UNCHANGED <<fileVars, tx_has_category, tx_columns, rerun_of, rulesVars, rollupVars,
                 last_op, sideVars>>

\* main, lines 168-188: the MERGE statement raises; the exception ends the
\* process.
MergeFileFails ==
  /\ run.pc = "loop"
  /\ run.i <= Len(csvs)
  /\ missing(norm_files[csvs[run.i]]) = {}
  /\ LET frame == StageRows(norm_files[csvs[run.i]])
     IN /\ df' = frame
        /\ transactions' = MergeFailed(transactions, OutCols(frame))
        /\ run' = [run EXCEPT !.pc = "failed", !.total_rows = run.total_rows + Len(frame)]
  /\ UNCHANGED <<fileVars, tx_has_category, tx_columns, rerun_of, rulesVars, rollupVars,
                 last_op, sideVars>>

\* main, lines 190-191: every file is merged, the row count is reported.
ReportRun ==
  /\ run.pc = "loop"
  /\ run.i > Len(csvs)
  /\ run' = [run EXCEPT !.pc = "report"]
  /\ df' = <<>>
  /\ UNCHANGED <<fileVars, transactions, tx_has_category, tx_columns, rerun_of, rulesVars,
                 rollupVars, last_op, sideVars>>

InitCommon ==
  /\ raw_files = <<>>
  /\ rules_csv = NoTable
  /\ overrides_csv = NoTable
  /\ dim_csv = NoDim
  /\ norm_files = <<>>
  /\ wrote = None
  /\ transactions = <<>>
  /\ tx_has_category = TRUE
  /\ df = <<>>
  /\ run = [pc |-> "idle", i |-> 1, total_rows |-> 0]
  /\ rerun_of = None
  /\ category_rules = NoTable
  /\ category_overrides = NoTable
  /\ category_dim = NoDim
  /\ view_def = None
  /\ monthly_cashflow = <<>>
  /\ monthly_actuals = <<>>
  /\ last_op = "none"
  /\ tx_columns = MainCols
  /\ sample_csv = NoTable
  /\ second = NoSecond
  /\ NoBalances
  /\ NoPositions

\* The loader over files written between its runs.
Init == InitCommon

Next == WriteNormalizedFile \/ StartRun \/ MergeFile \/ MergeFileFails \/ ReportRun

Spec == Init /\ [][Next]_vars

\* The rows of the identity checks: a row, and rows that differ from it in
\* the date, in the account, in the amount, in the description with the same
\* merchant_norm, and in the merchant.
KeyRows ==
  { FileRow(20240301, AcctCHK, -450, DescSB, NULL, NULL),
    FileRow(20240402, AcctCHK, -450, DescSB, NULL, NULL),
    FileRow(20240301, AcctPipe, -450, DescSB, NULL, NULL),
    FileRow(20240301, AcctCHK, 1200, DescSB, NULL, NULL),
    FileRow(20240301, AcctCHK, -450, DescSbCo, NULL, MemoM),
    FileRow(20240301, AcctCHK, -450, DescXY1, NULL, NULL) }

\* The loader over one file of any rows of KeyRows.
InitKey ==
  \E rows \in SeqsUpTo(KeyRows, MaxRows) \ { <<>> } :
    /\ raw_files = <<>>
    /\ rules_csv = NoTable
    /\ overrides_csv = NoTable
    /\ dim_csv = NoDim
    /\ norm_files = (<<20240301, 20240402>> :> rows)
    /\ wrote = None
    /\ transactions = <<>>
    /\ tx_has_category = TRUE
    /\ df = <<>>
    /\ run = [pc |-> "idle", i |-> 1, total_rows |-> 0]
    /\ rerun_of = None
    /\ category_rules = NoTable
    /\ category_overrides = NoTable
    /\ category_dim = NoDim
    /\ view_def = None
    /\ monthly_cashflow = <<>>
    /\ monthly_actuals = <<>>
    /\ last_op = "none"
    /\ tx_columns = MainCols
    /\ sample_csv = NoTable
    /\ second = NoSecond
    /\ NoBalances
    /\ NoPositions

NextKey == StartRun \/ MergeFile \/ MergeFileFails \/ ReportRun

SpecKey == InitKey /\ [][NextKey]_vars

\* ------------------------------------------------- the files of the rules
\* rules/category_rules.csv, rules/category_overrides.csv, rules/category_dim.csv

Rule(prio, mt, pat, cat) ==
  [priority |-> prio, match_type |-> mt, pattern |-> pat, category |-> cat,
   account_id |-> NULL, sign |-> NULL]

CatAlpha    == <<"A","l","p","h","a">>
CatBank     == <<"B","a","n","k">>
CatCoffee   == <<"C","o","f","f","e","e">>
CatFood     == <<"F","o","o","d">>
CatGift     == <<"G","i","f","t">>
CatLate     == <<"L","a","t","e">>
CatMisc     == <<"M","i","s","c">>
CatOff      == <<"O","f","f">>
CatTransfer == <<"T","r","a","n","s","f","e","r">>
CatTravel   == <<"T","r","a","v","e","l">>

\* Two rules of one priority, the second with the longer pattern; a rule of
\* that priority with a pattern as long as the second's and a smaller
\* category; a rule without a priority; a rule for another description.
RuleS      == Rule(Some(1), ContainsType, <<"s">>, CatBank)
RuleSb     == Rule(Some(1), ContainsType, <<"s","b">>, CatCoffee)
RuleDot    == Rule(Some(1), RegexType, <<"s",".">>, CatAlpha)
RuleNoPrio == Rule(None, RegexType, <<"s",".">>, CatAlpha)
RuleXy     == Rule(Some(2), ContainsType, <<"x","y">>, CatTravel)

\* A rule with an account_id of its own, of an account no row of the ledgers
\* is on, and a rule for the negative amounts, whose pattern is in the
\* description of a row with a positive amount.
Scoped(r, acct, sign) == [r EXCEPT !.account_id = acct, !.sign = sign]

RuleSavings  == Scoped(Rule(Some(1), ContainsType, <<"s","b">>, CatBank), <<"S","A","V">>, NULL)
RuleNegative == Scoped(Rule(Some(1), ContainsType, <<"x","y">>, CatGift), NULL,
                       <<"n","e","g","a","t","i","v","e">>)

\* A rule whose pattern is in a description, in a word normalize_merchant
\* leaves out.
RuleCo == Rule(Some(1), ContainsType, <<"c","o">>, CatMisc)

Csv(rows) == [present |-> TRUE, rows |-> rows]

RulesCsvs ==
  { NoTable, Csv(<<RuleS, RuleSb>>), Csv(<<RuleSb, RuleS>>), Csv(<<RuleNoPrio, RuleS>>),
    Csv(<<RuleSb, RuleDot>>), Csv(<<RuleDot, RuleSb>>), Csv(<<RuleXy>>),
    Csv(<<RuleSavings, RuleNegative>>), Csv(<<RuleCo>>) }

Ov(active, date, regex, amount, cat) ==
  [active |-> active, date |-> date, description_regex |-> regex, amount |-> amount,
   category |-> cat]

\* An active override on an amount, an inactive one, an active one without
\* an amount, one on another day, one on another amount.
OvSb       == Ov(<<"t","r","u","e">>, None, <<"s","b">>, Some(-450), CatTransfer)
OvOff      == Ov(<<"n","o">>, None, <<"s","b">>, Some(-450), CatOff)
OvNoAmount == Ov(<<"y","e","s">>, Some(20240301), <<"s",".">>, None, CatGift)
OvLate     == Ov(<<"1">>, Some(20240402), <<"s","b">>, Some(-450), CatLate)
OvOtherAmt == Ov(<<"T","r","u","e">>, None, <<"x","y">>, Some(999), CatMisc)

\* A second active override on the description, day and amount of OvSb,
\* with a smaller category.
OvBank     == Ov(<<"t","r","u","e">>, None, <<"s","b">>, Some(-450), CatBank)

OverridesCsvs ==
  { NoTable, Csv(<<OvSb, OvOff>>), Csv(<<OvNoAmount>>), Csv(<<OvLate, OvOtherAmt>>),
    Csv(<<OvSb, OvBank>>), Csv(<<OvBank, OvSb>>) }

DimCsv(has_flag, rows) == [present |-> TRUE, has_flag |-> has_flag, rows |-> rows]

DimRow(cat, flag) == [category |-> cat, is_transfer |-> flag]

TextTrue  == <<"t","r","u","e">>
TextFalse == <<"f","a","l","s","e">>

\* A file that flags one category, a file that lists that category twice, a
\* file without the column is_transfer.
DimOk     == DimCsv(TRUE, <<DimRow(CatTransfer, TextTrue), DimRow(CatCoffee, TextFalse)>>)
DimTwice  == DimCsv(TRUE, <<DimRow(CatTransfer, TextTrue), DimRow(CatTransfer, TextFalse)>>)
DimNoFlag == DimCsv(FALSE, <<DimRow(CatTransfer, NULL)>>)

\* A file that lists a category that is no transfer twice.
DimCoffeeTwice == DimCsv(TRUE, <<DimRow(CatCoffee, TextFalse), DimRow(CatCoffee, TextFalse)>>)

DimCsvs == { NoDim, DimOk, DimTwice, DimNoFlag, DimCoffeeTwice }

\* The files category_rules.csv is edited into between the scripts: a rule
\* is added, changed or removed, or the file is.
EditedRulesCsvs == { NoTable, Csv(<<RuleS, RuleSb>>), Csv(<<RuleSb, RuleS>>), Csv(<<RuleXy>>) }

\* category_rules.csv is written, replaced or deleted.
EditRulesCsv ==
  /\ run.pc # "loop"
  /\ \E c \in EditedRulesCsvs \ { rules_csv } : rules_csv' = c
  /\ last_op' = "edit"
  /\ UNCHANGED <<raw_files, overrides_csv, dim_csv, norm_files, wrote, loaderVars,
                 tx_has_category, tx_columns, rulesVars, rollupVars, sideVars>>

\* ------------------------------------------------ the rules loader's steps
\* src/etl/load_rules.py, the script

\* load_category_dim runs to its end: the file is absent, or it has the
\* column is_transfer and lists no category twice.
DimLoads ==
  ~dim_csv.present \/ (dim_csv.has_flag /\ UniqueCategories(DimFromCsv(dim_csv)))

\* load_csv_table(account_dim.csv), line 25: the INSERT succeeds, account_id
\* being the PRIMARY KEY of account_dim.
AcctLoads ==
  \/ ~acct_csv.present
  \/ \A i, j \in 1..Len(acct_csv.rows) :
       acct_csv.rows[i].account_id = acct_csv.rows[j].account_id => i = j

\* load_csv_table, lines 20-25: account_dim after a reload that succeeds.
AccountDimReloaded ==
  IF acct_csv.present THEN [present |-> TRUE, rows |-> acct_csv.rows] ELSE account_dim

\* The columns the INSERT ... SELECT of lines 153-179 reads from
\* category_overrides.csv, as far as the rows of the model carry them.
OverrideColumns == {"active", "date", "description_regex", "amount", "category"}

\* Lines 153-179: the INSERT succeeds, the file having every column the
\* SELECT names.
OverridesLoad ==
  \/ ~overrides_csv.present
  \/ \A i \in 1..Len(overrides_csv.rows) : OverrideColumns \subseteq DOMAIN overrides_csv.rows[i]

\* The script runs to its end: every table whose file exists is replaced by
\* the file's rows, a table whose file is absent stays as it is.
LoadRules ==
  /\ run.pc # "loop"
  /\ AcctLoads
  /\ DimLoads
  /\ OverridesLoad
  /\ account_dim' = AccountDimReloaded
  /\ category_dim' = IF dim_csv.present
                       THEN [present |-> TRUE, has_flag |-> TRUE, rows |-> DimFromCsv(dim_csv)]
                       ELSE category_dim
  /\ category_rules' = IF rules_csv.present
                         THEN [present |-> TRUE, rows |-> rules_csv.rows]
                         ELSE category_rules
  /\ category_overrides' = IF overrides_csv.present
                             THEN [present |-> TRUE, rows |-> OverridesFromCsv(overrides_csv)]
                             ELSE category_overrides
  /\ last_op' = "load_rules"
  /\ UNCHANGED <<fileVars, loaderVars, tx_has_category, tx_columns, rollupVars,
                 sample_csv, second, acct_csv, bal_files, balance_snapshot,
                 monthly_net_worth, positionVars>>

\* load_category_dim raises and ends the script: on the SELECT when the file
\* has no column is_transfer, the table untouched; on the unique index when
\* the file lists a category twice, the table already replaced.
LoadRulesFails ==
  /\ run.pc # "loop"
  /\ AcctLoads
  /\ ~DimLoads
  /\ account_dim' = AccountDimReloaded
  /\ category_dim' = IF dim_csv.has_flag
                       THEN [present |-> TRUE, has_flag |-> TRUE, rows |-> DimFromCsv(dim_csv)]
                       ELSE category_dim
  /\ last_op' = "load_rules_failed"
  /\ UNCHANGED <<fileVars, loaderVars, tx_has_category, tx_columns, category_rules,
                 category_overrides, rollupVars, sample_csv, second, acct_csv, bal_files,
                 balance_snapshot, monthly_net_worth, positionVars>>

\* load_csv_table raises on the INSERT of line 25, account_dim.csv listing an
\* account_id twice: the CREATE and the DELETE of lines 23-24 were committed
\* as they ran, and the script ends.
LoadRulesAccountDimFails ==
  /\ run.pc # "loop"
  /\ ~AcctLoads
  /\ account_dim' = [present |-> TRUE, rows |-> <<>>]
  /\ last_op' = "load_rules_account_dim_failed"
  /\ UNCHANGED <<fileVars, loaderVars, tx_has_category, tx_columns, rulesVars, rollupVars,
                 sample_csv, second, acct_csv, bal_files, balance_snapshot,
                 monthly_net_worth, positionVars>>

\* The INSERT of lines 153-179 raises, category_overrides.csv lacking a
\* column the SELECT names: the tables before it are reloaded, the CREATE
\* and the DELETE of lines 140-152 were committed as they ran, and the
\* script ends.
LoadRulesOverridesFail ==
  /\ run.pc # "loop"
  /\ AcctLoads
  /\ DimLoads
  /\ ~OverridesLoad
  /\ account_dim' = AccountDimReloaded
  /\ category_dim' = IF dim_csv.present
                       THEN [present |-> TRUE, has_flag |-> TRUE, rows |-> DimFromCsv(dim_csv)]
                       ELSE category_dim
  /\ category_rules' = IF rules_csv.present
                         THEN [present |-> TRUE, rows |-> rules_csv.rows]
                         ELSE category_rules
  /\ category_overrides' = [present |-> TRUE, rows |-> <<>>]
  /\ last_op' = "load_rules_overrides_failed"
  /\ UNCHANGED <<fileVars, loaderVars, tx_has_category, tx_columns, rollupVars,
                 sample_csv, second, acct_csv, bal_files, balance_snapshot,
                 monthly_net_worth, positionVars>>

\* -------------------------------------------------- the rollup build's steps
\* src/etl/build_rollups.py, the script

\* Lines 101-105: category_dim after the fallback load.
DimAfterFallback ==
  IF ~category_dim.present /\ dim_csv.present
    THEN [present |-> TRUE, has_flag |-> dim_csv.has_flag, rows |-> DimAsRead(dim_csv)]
    ELSE category_dim

\* Lines 108-112: category_rules after the fallback load.
RulesAfterFallback ==
  IF ~category_rules.present /\ rules_csv.present
    THEN [present |-> TRUE, rows |-> rules_csv.rows]
    ELSE category_rules

\* The rows of transactions_with_category as a query sees them now.
view_rows == ViewRows(view_def[1], transactions, category_rules, category_overrides)

\* ------------------------------------------------ accounts and balances
\* src/etl/load_accounts_and_balances.py

\* A row of rules/account_dim.csv is [account_id, type, include_networth,
\* include_liquid], the columns the net worth is built from; a row of a
\* balances file is [as_of_date, account_id, balance], the balance in cents,
\* None for a cell that is no number.

TypeLiability == <<"L","i","a","b","i","l","i","t","y">>
TypeAsset     == <<"A","s","s","e","t">>

Abs(n) == IF n < 0 THEN 0 - n ELSE n

\* read_balances: the rows of all files in the order of the sorted paths;
\* account_id stripped, balance 0 where it is no number.
BalanceRow(r) ==
  [as_of_date |-> r.as_of_date,
   account_id |-> Trim(r.account_id),
   balance    |-> IF r.balance = None THEN 0 ELSE r.balance[1]]

read_balances(files) ==
  LET all == FlattenSeq(files) IN [i \in 1..Len(all) |-> BalanceRow(all[i])]

\* main, lines 86-89: the text columns of account_dim.csv stripped.
AcctRow(r) == [r EXCEPT !.account_id = Trim(r.account_id), !.type = Trim(r.type)]

AcctRows(csv) == [i \in 1..Len(csv.rows) |-> AcctRow(csv.rows[i])]

\* main, lines 95-98: the account ids of the balances without a row in
\* account_dim.csv.
unknown(acct, bal) ==
  { bal[i].account_id : i \in 1..Len(bal) } \ { acct[i].account_id : i \in 1..Len(acct) }

\* type_by_id.get(account_id): dict(zip(...)) keeps the last row of an id.
TypeById(acct, id) ==
  IF \E i \in 1..Len(acct) : acct[i].account_id = id
    THEN Some(acct[CHOOSE i \in 1..Len(acct) :
                     /\ acct[i].account_id = id
                     /\ \A j \in i + 1..Len(acct) : acct[j].account_id # id].type)
    ELSE None

\* main, lines 101-105: the balance of a Liability is made negative.
NormalizedBalance(acct, r) ==
  IF TypeById(acct, r.account_id) = Some(TypeLiability)
    THEN [r EXCEPT !.balance = 0 - Abs(r.balance)]
    ELSE r

\* INSERT ... ON CONFLICT (as_of_date, account_id) DO UPDATE SET balance
RECURSIVE UpsertBalances(_, _)
UpsertBalances(t, rows) ==
  IF rows = <<>> THEN t
  ELSE LET r == Head(rows)
           hit == { i \in 1..Len(t) : t[i].as_of_date = r.as_of_date
                                        /\ t[i].account_id = r.account_id }
       IN UpsertBalances(IF hit = {} THEN Append(t, r)
                         ELSE [i \in 1..Len(t) |->
                                 IF i \in hit THEN [t[i] EXCEPT !.balance = r.balance]
                                 ELSE t[i]],
                         Tail(rows))

\* The view balances_enriched of build_rollups: the snapshot rows joined
\* to account_dim, the balance of a 'liability' negated.
EnrichedRow(b, a) ==
  [month            |-> MonthStr(b.as_of_date),
   account_id       |-> b.account_id,
   type             |-> IF a = None THEN NULL ELSE a[1].type,
   include_networth |-> a # None /\ a[1].include_networth,
   include_liquid   |-> a # None /\ a[1].include_liquid,
   balance_norm     |-> IF a # None /\ Lower(a[1].type) = Lower(TypeLiability)
                          THEN 0 - b.balance ELSE b.balance]

AccountOf(dim, id) ==
  IF \E i \in 1..Len(dim) : dim[i].account_id = id
    THEN Some(dim[CHOOSE i \in 1..Len(dim) : dim[i].account_id = id])
    ELSE None

balances_enriched(snap, dim) ==
  [i \in 1..Len(snap) |-> EnrichedRow(snap[i], AccountOf(dim, snap[i].account_id))]

\* The SELECT of monthly_net_worth over the rows of balances_enriched.
NetWorthRow(m, g) ==
  [month       |-> m,
   net_worth   |-> Sum([i \in 1..Len(g) |-> IF g[i].include_networth THEN g[i].balance_norm ELSE 0]),
   assets      |-> Sum([i \in 1..Len(g) |->
                         IF g[i].include_networth /\ g[i].balance_norm > 0
                           THEN g[i].balance_norm ELSE 0]),
   liabilities |-> Sum([i \in 1..Len(g) |->
                         IF g[i].include_networth /\ g[i].balance_norm < 0
                           THEN g[i].balance_norm ELSE 0]),
   liquid_net_worth |-> Sum([i \in 1..Len(g) |->
                              IF g[i].include_liquid THEN g[i].balance_norm ELSE 0])]

MonthsOf(be) == SortTexts({ be[i].month : i \in 1..Len(be) })

NetWorthRows(be, months) ==
  [k \in 1..Len(months) |->
     NetWorthRow(months[k], SelectSeq(be, LAMBDA r : r.month = months[k]))]

NetWorthOf(be) == NetWorthRows(be, MonthsOf(be))

\* Lines 431-467 of build_rollups: monthly_net_worth is built when both
\* tables are there, and left as it is otherwise.
NetWorthAfterBuild ==
  IF balance_snapshot.present /\ account_dim.present
    THEN NetWorthOf(balances_enriched(balance_snapshot.rows, account_dim.rows))
    ELSE monthly_net_worth

\* The script runs to its end: the fallback loads, the view, the two tables.
BuildRollups ==
  /\ run.pc # "loop"
  /\ DimAfterFallback.present
  /\ category_dim' = DimAfterFallback
  /\ category_rules' = RulesAfterFallback
  /\ LET def == ViewDefFor(tx_has_category, RulesAfterFallback, category_overrides)
         t == JoinedWithDim(ViewRows(def, transactions, RulesAfterFallback, category_overrides),
                            DimAfterFallback)
     IN /\ view_def' = Some(def)
        /\ monthly_cashflow' = CashflowOf(t)
        /\ monthly_actuals' = ActualsOf(t)
  /\ monthly_net_worth' = NetWorthAfterBuild
  /\ last_op' = "build_rollups"
  /\ UNCHANGED <<fileVars, loaderVars, tx_has_category, tx_columns, category_overrides,
                 sample_csv, second, acct_csv, bal_files, account_dim, balance_snapshot,
                 positionVars>>

\* There is no category_dim: the view is defined, then the statement that
\* builds monthly_cashflow raises on the join and ends the script.
BuildRollupsFails ==
  /\ run.pc # "loop"
  /\ ~DimAfterFallback.present
  /\ category_rules' = RulesAfterFallback
  /\ view_def' = Some(ViewDefFor(tx_has_category, RulesAfterFallback, category_overrides))
  /\ last_op' = "build_rollups_failed"
  /\ UNCHANGED <<fileVars, loaderVars, tx_has_category, tx_columns, category_dim,
                 category_overrides, monthly_cashflow, monthly_actuals, sideVars>>

\* The resolution over a ledger a loader left behind.

CatRow(d, desc, c, cat) == FileRow(d, AcctChecking, c, desc, cat, NULL)

\* The rows of the ledgers: two rows of one day and amount, one of them with
\* a category of its own, and a row of another day, amount and description.
LedgerRows ==
  { CatRow(20240301, DescSB, -450, NULL),
    CatRow(20240301, DescSbCo, -450, CatFood),
    CatRow(20240402, DescXY1, 1200, NULL) }

\* A table of before the column category: the rows without it.
WithoutCategory(t) == [i \in 1..Len(t) |-> [t[i] EXCEPT !.category = NULL]]

\* A database whose table transactions a loader has filled from one file,
\* with the column category or, a table of an earlier schema, without, and
\* a rules directory as it is found.
InitResolve ==
  \E rows \in SeqsUpTo(LedgerRows, MaxRows) \ { <<>> }, has \in BOOLEAN,
     rc \in RulesCsvs, oc \in OverridesCsvs, dc \in DimCsvs :
    /\ raw_files = <<>>
    /\ rules_csv = rc
    /\ overrides_csv = oc
    /\ dim_csv = dc
    /\ norm_files = <<>>
    /\ wrote = None
    /\ transactions = IF has THEN OutCols(StageRows(rows))
                      ELSE WithoutCategory(OutCols(StageRows(rows)))
    /\ tx_has_category = has
    /\ df = <<>>
    /\ run = [pc |-> "idle", i |-> 1, total_rows |-> 0]
    /\ rerun_of = None
    /\ category_rules = NoTable
    /\ category_overrides = NoTable
    /\ category_dim = NoDim
    /\ view_def = None
    /\ monthly_cashflow = <<>>
    /\ monthly_actuals = <<>>
    /\ last_op = "none"
    /\ tx_columns = IF has THEN MainCols ELSE MainCols \ { "category" }
    /\ sample_csv = NoTable
    /\ second = NoSecond
    /\ NoBalances
    /\ NoPositions

NextResolve ==
  \/ LoadRules \/ LoadRulesFails
  \/ BuildRollups \/ BuildRollupsFails

SpecResolve == InitResolve /\ [][NextResolve]_vars

\* --------------------------------------------------- the normalizer's steps
\* src/etl/normalize_transactions.py, normalize_all

RawRow(d, desc, c, cat) ==
  [date |-> Some(d), description |-> desc, amount |-> Some(c), category |-> cat]

\* The rows of the raw exports: a row without a category and a row with one.
RawRows ==
  { RawRow(20240301, DescSB, -450, NULL),
    RawRow(20240402, DescXY1, 1200, CatFood) }

\* The orders glob.glob may list a set of files in.
Orders(S) ==
  { o \in [1..Cardinality(S) -> S] : \A i, j \in 1..Cardinality(S) : o[i] = o[j] => i = j }

\* normalize_all over the one route, run while no loader runs: the files are
\* parsed and concatenated, the batch is de-duplicated, classified and
\* written; a file of the same name is overwritten.
NormalizeAll ==
  /\ run.pc # "loop"
  /\ DOMAIN raw_files # {}
  /\ \E order \in Orders(DOMAIN raw_files) :
       LET batch == DedupedBatch(ConcatFrames(raw_files, order), ExistingDupeKeys(norm_files))
           out == apply_category_rules(batch, rules_csv)
       IN IF batch = <<>>
            THEN norm_files' = norm_files /\ wrote' = None
            ELSE /\ norm_files' = (OutputPath(out) :> WrittenCsv(out)) @@ norm_files
                 /\ wrote' = Some(OutputPath(out))
  /\ run' = [pc |-> "idle", i |-> 1, total_rows |-> 0]
  /\ rerun_of' = None
  /\ df' = <<>>
  /\ last_op' = "normalize_all"
  /\ UNCHANGED <<raw_files, rulesDir, transactions, tx_has_category, tx_columns, rulesVars,
                 rollupVars, sideVars>>

\* The whole path: one export is normalized, loaded and resolved while the
\* rules file is edited; category_dim.csv is in place and no statement of
\* the loader fails.
InitPipeline ==
  /\ \E rows \in SeqsUpTo(RawRows, MaxRows) \ { <<>> } :
       raw_files = ("2024-transactions.csv" :> rows)
  /\ rules_csv = NoTable
  /\ overrides_csv = NoTable
  /\ dim_csv = DimOk
  /\ norm_files = <<>>
  /\ wrote = None
  /\ transactions = <<>>
  /\ tx_has_category = TRUE
  /\ df = <<>>
  /\ run = [pc |-> "idle", i |-> 1, total_rows |-> 0]
  /\ rerun_of = None
  /\ category_rules = NoTable
  /\ category_overrides = NoTable
  /\ category_dim = NoDim
  /\ view_def = None
  /\ monthly_cashflow = <<>>
  /\ monthly_actuals = <<>>
  /\ last_op = "none"
  /\ tx_columns = MainCols
  /\ sample_csv = NoTable
  /\ second = NoSecond
  /\ NoBalances
  /\ NoPositions

NextPipeline ==
  \/ EditRulesCsv \/ NormalizeAll
  \/ StartRun \/ MergeFile \/ ReportRun
  \/ LoadRules \/ BuildRollups

SpecPipeline == InitPipeline /\ [][NextPipeline]_vars

\* ------------------------------------------- the ledger under every script
\* src/etl/load_transactions.py, migrate_transactions.py, src/etl/Temp/temp.py

\* main, lines 144-147: the file lacks a required column; the ValueError
\* ends the process, the files after this one are not read.
RequiredColumnsMissing ==
  /\ run.pc = "loop"
  /\ run.i <= Len(csvs)
  /\ missing(norm_files[csvs[run.i]]) # {}
  /\ df' = flexible_rename(norm_files[csvs[run.i]])
  /\ run' = [run EXCEPT !.pc = "failed"]
  /\ UNCHANGED <<fileVars, transactions, tx_has_category, tx_columns, rerun_of, rulesVars,
                 rollupVars, last_op, sideVars>>

\* migrate_transactions.py, lines 19-25: the columns add() adds.
AddedColumns ==
  { "amount_cents", "amount", "merchant_norm", "subcategory", "memo", "tags", "is_transfer" }

\* migrate_transactions.py, lines 12-31, on one row: an added column is
\* NULL but is_transfer, which is FALSE; amount_cents is then filled from
\* amount.
MigratedRow(r) ==
  [c \in DOMAIN r \cup AddedColumns |->
     IF c \in DOMAIN r THEN r[c]
     ELSE IF c = "is_transfer" THEN FALSE
     ELSE IF c = "amount" THEN None
     ELSE IF c = "amount_cents"
       THEN (IF "amount" \in DOMAIN r THEN r["amount"] ELSE None)
     ELSE NULL]

\* migrate_transactions.py, the script, run while no loader runs.
MigrateTransactions ==
  /\ run.pc # "loop"
  /\ AddedColumns \ tx_columns # {}
  /\ transactions' = [i \in 1..Len(transactions) |-> MigratedRow(transactions[i])]
  /\ tx_columns' = tx_columns \cup AddedColumns
  /\ last_op' = "migrate_transactions"
  /\ UNCHANGED <<fileVars, tx_has_category, df, run, rerun_of, rulesVars, rollupVars,
                 sideVars>>

\* The rows the parquet files of FinanceData/normalized may hold: none, or
\* one row of the ledger's columns.
ParquetRows == { OutCols(StageRows(f)) : f \in SeqsUpTo(LoaderRows, 1) }

\* Temp/temp.py, the script, run while no loader runs: the views are
\* dropped and transactions is replaced by the rows of the parquet files.
ReloadFromParquet ==
  /\ run.pc # "loop"
  /\ \E rows \in ParquetRows \ { transactions } : transactions' = rows
  /\ tx_columns' = MainCols
  /\ view_def' = None
  /\ last_op' = "temp"
  /\ UNCHANGED <<fileVars, tx_has_category, df, run, rerun_of, rulesVars,
                 monthly_cashflow, monthly_actuals, sideVars>>

RowA == FileRow(20240301, AcctCHK, -450, DescSB, NULL, NULL)
RowB == FileRow(20240402, AcctCHK, 1200, DescXY1, NULL, NULL)

\* The files of the normalized directory: two good rows; the first of them
\* with another memo; a file under other header names and without an
\* account column; a file whose first date does not parse; a file whose
\* first amount is no number; a file with a column Transfer.
GoodFile      == <<RowA, RowB>>
UpdatedFile   == <<[RowA EXCEPT !.memo = MemoM]>>
NoAccountFile == <<[Date |-> Some(20240301), AMOUNT |-> Some(-450), Payee |-> DescSB]>>
BadDateFile   == <<[RowA EXCEPT !.date = None], RowB>>
BadAmountFile == <<[RowA EXCEPT !.amount = None], RowB>>
FlaggedFile   == <<[date |-> Some(20240301), account_id |-> AcctCHK, amount |-> Some(-450),
                    description |-> DescSB, Transfer |-> <<"Y","e","s">>]>>

\* A file whose amounts are written with a currency symbol, with a
\* thousands separator, in parentheses, and plainly.
NotationFile  ==
  <<[RowA EXCEPT !.amount = AmountText(<<"$","4",".","5","0">>)],
    [RowB EXCEPT !.amount = AmountText(<<"1",",","2","3","4",".","5","6">>)],
    [RowB EXCEPT !.amount = AmountText(<<"(","4",".","5","0",")">>)],
    [RowB EXCEPT !.amount = AmountText(<<"-","1","2",".","5">>)]>>

LedgerFiles ==
  { GoodFile, UpdatedFile, NoAccountFile, BadDateFile, BadAmountFile, FlaggedFile,
    NotationFile }

\* A database after init_db.py, and one or two files in the normalized
\* directory.
InitLedger ==
  \E f1 \in LedgerFiles, f2 \in { <<>>, UpdatedFile, NoAccountFile }, cols \in { InitDbCols } :
    /\ raw_files = <<>>
    /\ rules_csv = NoTable
    /\ overrides_csv = NoTable
    /\ dim_csv = DimOk
    /\ norm_files = IF f2 = <<>> THEN (<<20240301, 20240301>> :> f1)
                    ELSE (<<20240301, 20240301>> :> f1) @@ (<<20240301, 20240402>> :> f2)
    /\ wrote = None
    /\ transactions = <<>>
    /\ tx_has_category = TRUE
    /\ df = <<>>
    /\ run = [pc |-> "idle", i |-> 1, total_rows |-> 0]
    /\ rerun_of = None
    /\ category_rules = NoTable
    /\ category_overrides = NoTable
    /\ category_dim = NoDim
    /\ view_def = None
    /\ monthly_cashflow = <<>>
    /\ monthly_actuals = <<>>
    /\ last_op = "none"
    /\ tx_columns = cols
    /\ sample_csv = NoTable
    /\ second = NoSecond
    /\ NoBalances
    /\ NoPositions

NextLedger ==
  \/ StartRun \/ MergeFile \/ RequiredColumnsMissing \/ ReportRun
  \/ MigrateTransactions \/ ReloadFromParquet
  \/ BuildRollups

SpecLedger == InitLedger /\ [][NextLedger]_vars

\* ------------------------------------------------------ the sample loader
\* src/etl/load_csv.py

\* A row of sample_transactions.csv is [date, description, amount, account,
\* memo]: date is None when it does not parse, amount is None when the cell
\* is no number.

\* normalize, lines 56-62: lower case, every character but [a-z0-9 ] dropped,
\* runs of spaces collapsed, stripped.
RECURSIVE Collapse(_)
Collapse(t) ==
  IF Len(t) < 2 THEN t
  ELSE IF IsSpace(t[1]) /\ IsSpace(t[2]) THEN Collapse(Tail(t))
  ELSE <<t[1]>> \o Collapse(Tail(t))

sample_merchant_norm(text) ==
  Trim(Collapse(SelectSeq(Lower(text), LAMBDA c : IsAlnumLower(c) \/ IsSpace(c))))

\* hashlib.sha1(raw).hexdigest(), held as sha256 is.
sha1(key) == <<"sha1">> \o key

\* normalize, lines 74-76: _id, the key in the order date, account,
\* merchant_norm, amount_cents, dup_seq.
sample_id(r, d) ==
  sha1((IF r.date = None THEN <<"N","a","T">> ELSE DateStr(r.date[1])) \o <<"|">> \o r.account_id
         \o <<"|">> \o r.merchant_norm \o <<"|">> \o IntStr(r.amount_cents)
         \o <<"|">> \o IntStr(d))

\* normalize, lines 45-65, on one row.
SampleTyped(r) ==
  [date          |-> r.date,
   merchant      |-> Trim(r.description),
   amount        |-> IF r.amount = None THEN Some(0) ELSE r.amount,
   account_id    |-> Trim(r.account),
   memo          |-> IF r.memo = NULL THEN NULL ELSE Trim(r.memo),
   merchant_norm |-> sample_merchant_norm(Trim(r.description)),
   amount_cents  |-> IF r.amount = None THEN 0 ELSE r.amount[1]]

\* normalize, lines 78-86, on one row: the columns that are inserted.
SampleOut(r, d) ==
  [txn_id      |-> sample_id(r, d),
   date        |-> r.date,
   account_id  |-> r.account_id,
   merchant    |-> r.merchant,
   memo        |-> r.memo,
   amount      |-> r.amount,
   category    |-> NULL,
   subcategory |-> NULL,
   tags        |-> NULL]

SampleTypedRows(rows) == [i \in 1..Len(rows) |-> SampleTyped(rows[i])]

\* normalize, lines 68-70: dup_seq is cumcount(), from 0.
SampleWithIds(typed, seqs) == [i \in 1..Len(typed) |-> SampleOut(typed[i], seqs[i])]

normalize(rows) == SampleWithIds(SampleTypedRows(rows), cumcount(SampleTypedRows(rows)))

\* INSERT INTO transactions SELECT * FROM t ON CONFLICT (txn_id) DO NOTHING:
\* the rows of t whose txn_id is not stored are appended, a stored row stays
\* as it is.
InsertOrNothing(t, rows) == t \o SelectSeq(rows, LAMBDA r : r.txn_id \notin Ids(t))

SampleRow(d, desc, c, memo) ==
  [date |-> Some(d), description |-> desc, amount |-> Some(c), account |-> AcctCHK,
   memo |-> memo]

\* The rows of the sample file: a row, the same row with a memo, another row.
SampleRows ==
  { SampleRow(20240301, DescSB, -450, NULL),
    SampleRow(20240301, DescSB, -450, MemoM),
    SampleRow(20240402, DescXY1, 1200, NULL) }

SampleCsvs == { Csv(rows) : rows \in SeqsUpTo(SampleRows, MaxRows) \ { <<>> } }

\* sample_transactions.csv is written or replaced.
EditSampleCsv ==
  /\ \E c \in SampleCsvs \ { sample_csv } : sample_csv' = c
  /\ last_op' = "edit"
  /\ UNCHANGED <<fileVars, loaderVars, tx_has_category, tx_columns, rulesVars, rollupVars,
                 second, balanceVars, positionVars>>

\* load_csv.py, main: the file is read and normalized and its rows are
\* inserted; the table has the nine columns of the frame.
LoadCsv ==
  /\ sample_csv.present
  /\ tx_columns = SampleCols
  /\ transactions' = InsertOrNothing(transactions, normalize(sample_csv.rows))
  /\ last_op' = "load_csv"
  /\ UNCHANGED <<fileVars, df, run, rerun_of, tx_has_category, tx_columns, rulesVars,
                 rollupVars, sideVars>>

\* load_csv.py, main: the table has other columns than the frame's nine;
\* the INSERT raises and ends the script.
LoadCsvFails ==
  /\ sample_csv.present
  /\ tx_columns # SampleCols
  /\ last_op' = "load_csv_failed"
  /\ UNCHANGED <<fileVars, loaderVars, tx_has_category, tx_columns, rulesVars, rollupVars,
                 sideVars>>

\* An empty table of the columns load_csv.py inserts, or the table of
\* init_db.py, and a sample file.
InitSample ==
  \E c \in SampleCsvs, cols \in { SampleCols, InitDbCols } :
    /\ raw_files = <<>>
    /\ rules_csv = NoTable
    /\ overrides_csv = NoTable
    /\ dim_csv = NoDim
    /\ norm_files = <<>>
    /\ wrote = None
    /\ transactions = <<>>
    /\ tx_has_category = TRUE
    /\ df = <<>>
    /\ run = [pc |-> "idle", i |-> 1, total_rows |-> 0]
    /\ rerun_of = None
    /\ category_rules = NoTable
    /\ category_overrides = NoTable
    /\ category_dim = NoDim
    /\ view_def = None
    /\ monthly_cashflow = <<>>
    /\ monthly_actuals = <<>>
    /\ last_op = "none"
    /\ tx_columns = cols
    /\ sample_csv = c
    /\ second = NoSecond
    /\ NoBalances
    /\ NoPositions

NextSample == EditSampleCsv \/ LoadCsv \/ LoadCsvFails

SpecSample == InitSample /\ [][NextSample]_vars

\* ------------------------------------------------ two loaders at one time
\* src/etl/load_transactions.py, main, line 116

\* The files a second loader process may have been given: one row each.
SecondBatches == { <<r>> : r \in LoaderRows }

\* main, line 116, in a second process while the first is in its loop: the
\* first process holds the database file open for writing until it ends, so
\* duckdb.connect raises in the second and the exception ends it before it
\* reads a file.
StartSecondRun ==
  /\ run.pc = "loop"
  /\ second.pc = "none"
  /\ \E b \in SecondBatches : second' = [pc |-> "failed", batch |-> b]
  /\ UNCHANGED <<fileVars, loaderVars, tx_has_category, tx_columns, rulesVars, rollupVars,
                 last_op, sample_csv, balanceVars, positionVars>>

\* The loader over one file, and a second loader started during its run.
InitConcurrent ==
  \E rows \in SeqsUpTo(LoaderRows, MaxRows) \ { <<>> } :
    /\ raw_files = <<>>
    /\ rules_csv = NoTable
    /\ overrides_csv = NoTable
    /\ dim_csv = NoDim
    /\ norm_files = (<<20240301, 20240402>> :> rows)
    /\ wrote = None
    /\ transactions = <<>>
    /\ tx_has_category = TRUE
    /\ df = <<>>
    /\ run = [pc |-> "idle", i |-> 1, total_rows |-> 0]
    /\ rerun_of = None
    /\ category_rules = NoTable
    /\ category_overrides = NoTable
    /\ category_dim = NoDim
    /\ view_def = None
    /\ monthly_cashflow = <<>>
    /\ monthly_actuals = <<>>
    /\ last_op = "none"
    /\ tx_columns = MainCols
    /\ sample_csv = NoTable
    /\ second = NoSecond
    /\ NoBalances
    /\ NoPositions

NextConcurrent == StartRun \/ MergeFile \/ ReportRun \/ StartSecondRun

SpecConcurrent == InitConcurrent /\ [][NextConcurrent]_vars

\* ----------------------------------------- the normalizer over new exports
\* src/etl/normalize_transactions.py, normalize_all, run after run

\* The rows of the exports: two rows of one day, a row of that day without
\* a description, a row of a later day.
ExportRows ==
  { RawRow(20240301, DescSB, -450, NULL),
    RawRow(20240301, DescXY1, 999, NULL),
    RawRow(20240301, NULL, -450, NULL),
    RawRow(20240402, DescXY1, 1200, NULL) }

ExportFiles == SeqsUpTo(ExportRows, MaxRows) \ { <<>> }

\* A second export is put into transactions/raw/chase/checking.
AddRawFile ==
  /\ run.pc # "loop"
  /\ DOMAIN raw_files = { "2024-transactions.csv" }
  /\ \E rows \in ExportFiles : raw_files' = raw_files @@ ("2025-transactions.csv" :> rows)
  /\ last_op' = "edit"
  /\ UNCHANGED <<rulesDir, norm_files, wrote, loaderVars, tx_has_category, tx_columns,
                 rulesVars, rollupVars, sideVars>>

\* One export, no rules file, nothing normalized yet.
InitNormalize ==
  /\ \E rows \in ExportFiles : raw_files = ("2024-transactions.csv" :> rows)
  /\ rules_csv = NoTable
  /\ overrides_csv = NoTable
  /\ dim_csv = DimOk
  /\ norm_files = <<>>
  /\ wrote = None
  /\ transactions = <<>>
  /\ tx_has_category = TRUE
  /\ tx_columns = MainCols
  /\ df = <<>>
  /\ run = [pc |-> "idle", i |-> 1, total_rows |-> 0]
  /\ rerun_of = None
  /\ category_rules = NoTable
  /\ category_overrides = NoTable
  /\ category_dim = NoDim
  /\ view_def = None
  /\ monthly_cashflow = <<>>
  /\ monthly_actuals = <<>>
  /\ last_op = "none"
  /\ sample_csv = NoTable
  /\ second = NoSecond
  /\ NoBalances
  /\ NoPositions

NextNormalize == AddRawFile \/ NormalizeAll

SpecNormalize == InitNormalize /\ [][NextNormalize]_vars

\* ------------------------------------------- the balances and the net worth
\* src/etl/load_accounts_and_balances.py, main

\* main runs to its end: account_dim is replaced by the rows of the CSV and
\* the balances are upserted by (as_of_date, account_id).
LoadAccountsAndBalances ==
  /\ acct_csv.present
  /\ bal_files # <<>>
  /\ unknown(AcctRows(acct_csv), read_balances(bal_files)) = {}
  /\ account_dim' = [present |-> TRUE, rows |-> AcctRows(acct_csv)]
  /\ LET acct == AcctRows(acct_csv)
         bal  == read_balances(bal_files)
     IN balance_snapshot' =
          [present |-> TRUE,
           rows |-> UpsertBalances(balance_snapshot.rows,
                                   [i \in 1..Len(bal) |-> NormalizedBalance(acct, bal[i])])]
  /\ last_op' = "load_accounts_and_balances"
  /\ UNCHANGED <<fileVars, loaderVars, tx_has_category, tx_columns, rulesVars, rollupVars,
                 sample_csv, second, acct_csv, bal_files, monthly_net_worth, positionVars>>

\* main, lines 95-98: a balance names an account that is not in
\* account_dim.csv; SystemExit before the database is opened.
LoadAccountsAndBalancesExits ==
  /\ acct_csv.present
  /\ bal_files # <<>>
  /\ unknown(AcctRows(acct_csv), read_balances(bal_files)) # {}
  /\ last_op' = "load_accounts_and_balances_exit"
  /\ UNCHANGED <<fileVars, loaderVars, tx_has_category, tx_columns, rulesVars, rollupVars,
                 sideVars>>

AcctCard == <<"C","A","R","D">>
AcctLoan == <<"L","O","A","N">>

Account(id, type) ==
  [account_id |-> id, type |-> type, include_networth |-> TRUE, include_liquid |-> FALSE]

\* account_dim.csv: a checking account and a credit card, the card a
\* Liability, written with a capital or without.
AcctCsvs ==
  { Csv(<<Account(AcctCHK, TypeAsset), Account(AcctCard, TypeLiability)>>),
    Csv(<<Account(AcctCHK, TypeAsset), Account(AcctCard, Lower(TypeLiability))>>) }

Balance(d, id, c) == [as_of_date |-> d, account_id |-> id, balance |-> Some(c)]

\* The rows of the balances files: the card's balance entered as a positive
\* and as a negative number, the checking account, an account that is not
\* in account_dim.csv.
BalanceRows ==
  { Balance(20240131, AcctCard, 50000), Balance(20240131, AcctCard, -50000),
    Balance(20240229, AcctCard, 20000), Balance(20240131, AcctCHK, 120000),
    Balance(20240131, AcctLoan, 900000) }

SnapshotKeys(rows) == { <<rows[i].as_of_date, rows[i].account_id>> : i \in 1..Len(rows) }

\* A file holds one balance per date and account.
BalanceFiles ==
  { f \in SeqsUpTo(BalanceRows, MaxRows) \ { <<>> } : Cardinality(SnapshotKeys(f)) = Len(f) }

\* The balances directory is given another file.
EditBalances ==
  /\ \E f \in BalanceFiles : bal_files' = <<f>> /\ bal_files # <<f>>
  /\ last_op' = "edit"
  /\ UNCHANGED <<fileVars, loaderVars, tx_has_category, tx_columns, rulesVars, rollupVars,
                 sample_csv, second, acct_csv, account_dim, balance_snapshot,
                 monthly_net_worth, positionVars>>

\* A database without balances, an account_dim.csv and one balances file.
InitBalances ==
  \E a \in AcctCsvs, f \in BalanceFiles :
    /\ raw_files = <<>>
    /\ rules_csv = NoTable
    /\ overrides_csv = NoTable
    /\ dim_csv = DimOk
    /\ norm_files = <<>>
    /\ wrote = None
    /\ transactions = <<>>
    /\ tx_has_category = TRUE
    /\ tx_columns = MainCols
    /\ df = <<>>
    /\ run = [pc |-> "idle", i |-> 1, total_rows |-> 0]
    /\ rerun_of = None
    /\ category_rules = NoTable
    /\ category_overrides = NoTable
    /\ category_dim = NoDim
    /\ view_def = None
    /\ monthly_cashflow = <<>>
    /\ monthly_actuals = <<>>
    /\ last_op = "none"
    /\ sample_csv = NoTable
    /\ second = NoSecond
    /\ acct_csv = a
    /\ bal_files = <<f>>
    /\ account_dim = NoTable
    /\ balance_snapshot = NoTable
    /\ monthly_net_worth = <<>>
    /\ NoPositions

NextBalances ==
  \/ EditBalances
  \/ LoadAccountsAndBalances \/ LoadAccountsAndBalancesExits
  \/ BuildRollups

SpecBalances == InitBalances /\ [][NextBalances]_vars

\* ---------------------------------------------------------- the positions
\* src/etl/load_positions.py

\* A row of a positions file is [as_of_date, account_id, symbol, shares,
\* price, market_value]; the table has a unique index on the first three.

\* str.upper
UpperChar(c) ==
  IF c \in Range(LowerCase)
    THEN UpperCase[CHOOSE i \in 1..Len(LowerCase) : LowerCase[i] = c]
    ELSE c

Upper(s) == [i \in 1..Len(s) |-> UpperChar(s[i])]

\* _load_normalized_files, lines 60-61: the keys of a row normalized.
PosRow(r) ==
  [r EXCEPT !.account_id = Upper(Trim(r.account_id)), !.symbol = Trim(r.symbol)]

PosKey(r) == <<r.as_of_date, r.account_id, r.symbol>>

Snapshot(r) == <<r.as_of_date, r.account_id>>

\* pd.concat(frames): every row of every file, with its file's __mtime.
Concatenated(files) ==
  UNION { { [row |-> PosRow(files[f].rows[i]), mtime |-> files[f].mtime] :
              i \in 1..Len(files[f].rows) } : f \in DOMAIN files }

\* sort_values("__mtime", ascending=False): the rows that can come first for
\* their key. The sort is not stable, so among rows of one key with the same
\* __mtime (two rows of one file, two files written together) any can.
Newest(all) ==
  { x \in all : \A y \in all : PosKey(y.row) = PosKey(x.row) => y.mtime <= x.mtime }

\* drop_duplicates(keep="first"): one row per key. The set of the frames that
\* _load_normalized_files can return.
Stagings(files) ==
  LET cand == { x.row : x \in Newest(Concatenated(files)) }
      keys == { PosKey(r) : r \in cand }
  IN { S \in SUBSET cand :
         /\ \A k \in keys : \E r \in S : PosKey(r) = k
         /\ \A r1 \in S, r2 \in S : PosKey(r1) = PosKey(r2) => r1 = r2 }

\* MERGE INTO positions ... WHEN MATCHED THEN UPDATE ... WHEN NOT MATCHED
\* THEN INSERT, lines 99-111.
MergePositions(t, staging) ==
  { r \in t : \A s \in staging : PosKey(s) # PosKey(r) } \cup staging

\* DELETE FROM positions ... NOT EXISTS, lines 115-124: the statement that
\* leaves every row in place.
AntiDeleteNothing(t, staging) == t

\* DELETE FROM positions p USING (SELECT DISTINCT as_of_date, account_id FROM
\* staging) k WHERE same snapshot AND NOT EXISTS (staging row of that symbol).
AntiDelete(t, staging) ==
  { r \in t :
      ~ /\ \E k \in staging : Snapshot(k) = Snapshot(r)
        /\ ~ \E s \in staging : PosKey(s) = PosKey(r) }

\* load_all up to the MERGE: the files are read, BEGIN, MERGE (lines 79-111).
\* It returns at line 81 when there is no file.
LoadPositionsMerge ==
  /\ pos_txn.pc \in {"none", "committed"}
  /\ pos_files # <<>>
  /\ \E staging \in Stagings(pos_files) :
       pos_txn' = [pc |-> "merged", began |-> positions, staging |-> staging,
                   rows |-> MergePositions(positions, staging)]
  /\ UNCHANGED <<pos_files, positions, last_op>>
  /\ UNCHANGED <<fileVars, loaderVars, tx_has_category, tx_columns, rulesVars, rollupVars,
                 sample_csv, second, balanceVars>>

\* load_all, lines 115-124: the DELETE inside the transaction.
LoadPositionsDelete ==
  /\ pos_txn.pc = "merged"
  /\ pos_txn' = [pos_txn EXCEPT !.pc = "deleted",
                                !.rows = AntiDelete(pos_txn.rows, pos_txn.staging)]
  /\ UNCHANGED <<pos_files, positions, last_op>>
  /\ UNCHANGED <<fileVars, loaderVars, tx_has_category, tx_columns, rulesVars, rollupVars,
                 sample_csv, second, balanceVars>>

\* load_all, line 126: COMMIT.
LoadPositionsCommit ==
  /\ pos_txn.pc = "deleted"
  /\ positions' = pos_txn.rows
  /\ pos_txn' = [pos_txn EXCEPT !.pc = "committed", !.rows = {}]
  /\ last_op' = "load_positions"
  /\ UNCHANGED pos_files
  /\ UNCHANGED <<fileVars, loaderVars, tx_has_category, tx_columns, rulesVars, rollupVars,
                 sample_csv, second, balanceVars>>

\* The process ends between BEGIN and COMMIT: the connection closes and the
\* transaction is rolled back.
LoadPositionsEndsEarly ==
  /\ pos_txn.pc \in {"merged", "deleted"}
  /\ pos_txn' = NoTxn
  /\ UNCHANGED <<pos_files, positions, last_op>>
  /\ UNCHANGED <<fileVars, loaderVars, tx_has_category, tx_columns, rulesVars, rollupVars,
                 sample_csv, second, balanceVars>>

Position(d, acct, sym, n) ==
  [as_of_date |-> d, account_id |-> acct, symbol |-> sym,
   shares |-> n, price |-> 100, market_value |-> n * 100]

IraLower == <<"i","r","a"," ">>

IraUpper == <<"I","R","A">>

SymVti == <<"V","T","I">>

SymBnd == <<"B","N","D"," ">>

\* The files of positions/normalized: one or two rows, the account written in
\* both cases, a symbol with a trailing blank, one symbol twice in a file.
PositionFileRows ==
  { <<Position(20240131, IraLower, SymVti, 10)>>,
    <<Position(20240131, IraUpper, SymVti, 20)>>,
    <<Position(20240131, IraUpper, SymBnd, 5)>>,
    <<Position(20240131, IraLower, SymVti, 10), Position(20240131, IraUpper, SymBnd, 5)>>,
    <<Position(20240131, IraUpper, SymVti, 10), Position(20240131, IraLower, SymVti, 20)>>,
    <<Position(20240229, IraUpper, SymVti, 30)>>,
    <<Position(20240229, IraUpper, SymBnd, 7), Position(20240131, IraUpper, SymVti, 20)>> }

PosFile(m, rows) == [mtime |-> m, rows |-> rows]

\* positions/normalized as the glob lists it: one file, or two in either order
\* of their mtimes, or two written together.
PositionDirs ==
  { <<PosFile(1, a)>> : a \in PositionFileRows }
    \cup { <<PosFile(p[3], p[1]), PosFile(3 - p[3], p[2])>> :
             p \in PositionFileRows \X PositionFileRows \X {1, 2} }
    \cup { <<PosFile(1, <<Position(20240131, IraUpper, SymVti, 10)>>),
             PosFile(1, <<Position(20240131, IraUpper, SymVti, 20)>>)>> }

\* The directory positions/normalized changes while no loader runs.
EditPositions ==
  /\ pos_txn.pc \in {"none", "committed"}
  /\ \E d \in PositionDirs : pos_files' = d /\ pos_files # d
  /\ pos_txn' = NoTxn
  /\ last_op' = "edit"
  /\ UNCHANGED positions
  /\ UNCHANGED <<fileVars, loaderVars, tx_has_category, tx_columns, rulesVars, rollupVars,
                 sample_csv, second, balanceVars>>

\* A database without positions and a directory of positions files.
InitPositions ==
  /\ raw_files = <<>>
  /\ rules_csv = NoTable
  /\ overrides_csv = NoTable
  /\ dim_csv = DimOk
  /\ norm_files = <<>>
  /\ wrote = None
  /\ transactions = <<>>
  /\ tx_has_category = TRUE
  /\ tx_columns = MainCols
  /\ df = <<>>
  /\ run = [pc |-> "idle", i |-> 1, total_rows |-> 0]
  /\ rerun_of = None
  /\ category_rules = NoTable
  /\ category_overrides = NoTable
  /\ category_dim = NoDim
  /\ view_def = None
  /\ monthly_cashflow = <<>>
  /\ monthly_actuals = <<>>
  /\ last_op = "none"
  /\ sample_csv = NoTable
  /\ second = NoSecond
  /\ NoBalances
  /\ pos_files \in PositionDirs
  /\ positions = {}
  /\ pos_txn = NoTxn

NextPositions ==
  \/ EditPositions
  \/ LoadPositionsMerge
  \/ LoadPositionsDelete
  \/ LoadPositionsCommit
  \/ LoadPositionsEndsEarly

SpecPositions == InitPositions /\ [][NextPositions]_vars

\* ------------------------------------------------- the rules directory edited
\* src/etl/load_rules.py over files that were edited after a load

\* account_dim.csv with the card listed twice.
AcctTwice ==
  Csv(<<Account(AcctCHK, TypeAsset), Account(AcctCard, TypeLiability),
        Account(AcctCard, TypeAsset)>>)

\* category_overrides.csv without the column amount.
OvNoAmountColumn ==
  Csv(<<[active |-> <<"t","r","u","e">>, date |-> None,
         description_regex |-> <<"s","b">>, category |-> CatTransfer]>>)

\* account_dim.csv or category_overrides.csv is written anew.
EditRulesDir ==
  /\ \/ /\ \E c \in (AcctCsvs \cup { AcctTwice }) \ { acct_csv } : acct_csv' = c
        /\ UNCHANGED overrides_csv
     \/ /\ \E c \in (OverridesCsvs \cup { OvNoAmountColumn }) \ { overrides_csv } :
             overrides_csv' = c
        /\ UNCHANGED acct_csv
  /\ last_op' = "edit"
  /\ UNCHANGED <<raw_files, rules_csv, dim_csv, norm_files, wrote, loaderVars,
                 tx_has_category, tx_columns, rulesVars, rollupVars, sample_csv, second,
                 bal_files, account_dim, balance_snapshot, monthly_net_worth, positionVars>>

\* A database that load_rules has loaded from a rules directory, and
\* category_dim.csv as it is found since.
InitReload ==
  \E ac \in AcctCsvs, rc \in RulesCsvs \ { NoTable }, oc \in OverridesCsvs \ { NoTable },
     dc \in DimCsvs :
    /\ raw_files = <<>>
    /\ rules_csv = rc
    /\ overrides_csv = oc
    /\ dim_csv = dc
    /\ norm_files = <<>>
    /\ wrote = None
    /\ transactions = <<>>
    /\ tx_has_category = TRUE
    /\ tx_columns = MainCols
    /\ df = <<>>
    /\ run = [pc |-> "idle", i |-> 1, total_rows |-> 0]
    /\ rerun_of = None
    /\ category_rules = [present |-> TRUE, rows |-> rc.rows]
    /\ category_overrides = [present |-> TRUE, rows |-> OverridesFromCsv(oc)]
    /\ category_dim = [present |-> TRUE, has_flag |-> TRUE, rows |-> DimFromCsv(DimOk)]
    /\ view_def = None
    /\ monthly_cashflow = <<>>
    /\ monthly_actuals = <<>>
    /\ last_op = "none"
    /\ sample_csv = NoTable
    /\ second = NoSecond
    /\ acct_csv = ac
    /\ bal_files = <<>>
    /\ account_dim = [present |-> TRUE, rows |-> ac.rows]
    /\ balance_snapshot = NoTable
    /\ monthly_net_worth = <<>>
    /\ NoPositions

NextReload ==
  \/ EditRulesDir
  \/ LoadRules \/ LoadRulesFails
  \/ LoadRulesAccountDimFails \/ LoadRulesOverridesFail

SpecReload == InitReload /\ [][NextReload]_vars

\* ---------------------------------------------------------------- claims

\* C1: a loader run that repeats the previous run over the same normalized
\* files ends with the table it started from: the same rows, in the same
\* number, with the same values in every column.
C1_MergeIdempotent ==
  (run.pc = "report" /\ rerun_of # None) => transactions = rerun_of[1]

\* A repeated run has ended over a table of two rows or more.
C1_Witness ==
  run.pc = "report" /\ rerun_of # None /\ Len(transactions) >= 2

EndsWith(s, suffix) ==
  Len(s) >= Len(suffix) /\ SubSeq(s, Len(s) - Len(suffix) + 1, Len(s)) = suffix

Twins(frame, i) == { j \in 1..Len(frame) : GroupKey(frame[j]) = GroupKey(frame[i]) }

C9_KeyOfFiveFields ==
  /\ \A i, j \in 1..Len(df) :
       df[i].txn_id = df[j].txn_id
         <=> (GroupKey(df[i]) = GroupKey(df[j]) /\ df[i].dup_seq = df[j].dup_seq)
  /\ rerun_of # None => Ids(df) \subseteq Ids(rerun_of[1])

\* A repeated run has staged a frame with two rows that differ in the
\* account alone.
C9_Witness ==
  /\ rerun_of # None
  /\ \E i, j \in 1..Len(df) :
       /\ df[i].account_id # df[j].account_id
       /\ df[i].date = df[j].date
       /\ df[i].amount_cents = df[j].amount_cents
       /\ df[i].merchant_norm = df[j].merchant_norm

\* C10: every step leaves the table as it was or ends with every row of the
\* staged batch stored as staged; the rows of other identities are as they
\* were.
C10_MergeAllOrNothing ==
  [][ \/ transactions' = transactions
      \/ /\ \A i \in 1..Len(staging_df') : staging_df'[i] \in Range(transactions')
         /\ \A k \in 1..Len(transactions) :
              transactions[k].txn_id \notin Ids(staging_df')
                => transactions[k] \in Range(transactions') ]_vars

\* A MERGE of a batch of two rows has failed and none of them is stored.
C10_Witness ==
  /\ run.pc = "failed"
  /\ Len(df) >= 2
  /\ Ids(df) \cap Ids(transactions) = {}


\* The view is defined as build_rollups defines it over the tables as they
\* are.
ViewIsCurrent ==
  /\ view_def # None
  /\ view_def[1] = ViewDefFor(tx_has_category, category_rules, category_overrides)

\* The row of base of the i-th row of the ledger.
BaseOf(i) == BaseCTE(transactions, tx_has_category)[i]

\* The rows of the view that show the i-th row of the ledger.
ViewOf(i) ==
  { view_rows[k] : k \in { n \in 1..Len(view_rows) : view_rows[n].txn_id = transactions[i].txn_id } }

\* The categories of the overrides, and of the rules, that match a row of
\* base.
OverrideCategories(b) ==
  IF category_overrides.present
    THEN { o.category : o \in { x \in Range(category_overrides.rows) : OvJoin(b, x) } } \ { NULL }
    ELSE {}

RuleCategories(b) ==
  IF category_rules.present
    THEN { r.category : r \in { x \in Range(RulesCTE(category_rules)) : HitsJoin(b, x) } }
    ELSE {}

\* C2: with the view defined over the tables as they are, every row of the
\* ledger is shown with a category that is not null: the category of a
\* matching override if there is one, else the category of a matching rule
\* if there is one, else the stored category if the table has the column and
\* the value is not null, else "Uncategorized"; this with or without the
\* table of rules, the table of overrides and the column category.
C2_PrecedenceChain ==
  ViewIsCurrent =>
    LET shown == view_rows
        base == BaseCTE(transactions, tx_has_category)
    IN \A i \in 1..Len(transactions) :
         LET ovc == OverrideCategories(base[i])
             rc == RuleCategories(base[i])
         IN /\ \E k \in 1..Len(shown) : shown[k].txn_id = transactions[i].txn_id
            /\ \A k \in 1..Len(shown) :
                 shown[k].txn_id = transactions[i].txn_id =>
                   /\ shown[k].category # NULL
                   /\ IF ovc # {} THEN shown[k].category \in ovc
                      ELSE IF rc # {} THEN shown[k].category \in rc
                      ELSE IF tx_has_category /\ transactions[i].category # NULL
                        THEN shown[k].category = transactions[i].category
                      ELSE shown[k].category = Uncategorized

\* An override and a rule of another category both match a row whose stored
\* category is a third one, and the view shows the override's category.
C2_Witness ==
  /\ ViewIsCurrent
  /\ \E i \in 1..Len(transactions) :
       /\ OverrideCategories(BaseOf(i)) # {}
       /\ RuleCategories(BaseOf(i)) # {}
       /\ OverrideCategories(BaseOf(i)) \cap RuleCategories(BaseOf(i)) = {}
       /\ tx_has_category
       /\ transactions[i].category
            \notin { NULL } \cup OverrideCategories(BaseOf(i)) \cup RuleCategories(BaseOf(i))
       /\ \E v \in ViewOf(i) : v.category \in OverrideCategories(BaseOf(i))

\* The order C3 states, over rules with a numeric priority.
C3Before(p1, pat1, cat1, p2, pat2, cat2) ==
  \/ p1 < p2
  \/ p1 = p2 /\ Len(pat1) > Len(pat2)
  \/ p1 = p2 /\ Len(pat1) = Len(pat2) /\ StrLess(cat1, cat2)

\* The categories of the rules of rs that no rule of rs precedes.
C3First(rs) ==
  { r.category : r \in { x \in rs : \A y \in rs :
      ~C3Before(y.priority, y.pattern, y.category, x.priority, x.pattern, x.category) } }

\* The rules of the file that match a row normalize_all wrote.
C3Matching(row) ==
  { r \in Range(load_category_rules(rules_csv)) : NormRuleMatches(row, r) }

\* The rules of the table that match the i-th row of the ledger, with the
\* priority held as the rules CTE holds it.
C3Hits(i) ==
  { [priority |-> r.prio, pattern |-> r.pattern, category |-> r.category] :
      r \in { x \in Range(RulesCTE(category_rules)) : HitsJoin(BaseOf(i), x) } }

\* C3 as stated: a row that rules match takes the category of the one rule
\* that comes first by ascending priority, then descending pattern length,
\* then ascending category, whatever the order of the rules in the file or
\* the table; in the file normalize_all writes, and in the view when no
\* table of overrides exists.
C3_RuleOrder ==
  /\ (last_op = "normalize_all" /\ wrote # None /\ rules_csv.present) =>
       \A k \in 1..Len(norm_files[wrote[1]]) :
         LET row == norm_files[wrote[1]][k]
         IN C3Matching(row) # {} =>
              /\ Cardinality(C3First(C3Matching(row))) = 1
              /\ row.category \in C3First(C3Matching(row))
  /\ (ViewIsCurrent /\ category_rules.present /\ ~category_overrides.present) =>
       \A i \in 1..Len(transactions) :
         C3Hits(i) # {} =>
           /\ Cardinality(C3First(C3Hits(i))) = 1
           /\ \A v \in ViewOf(i) : v.category \in C3First(C3Hits(i))

\* The match of an override as C4 states it.
C4Matches(b, o) ==
  /\ o.active
  /\ o.description_regex # NULL
  /\ RegexSearch(b.desc_src, o.description_regex)
  /\ (o.date = None \/ o.date[1] = b.date)
  /\ (o.amount = None \/ o.amount[1] = b.amount_cents)

\* The category the view would show for a row of base without any override.
C4Otherwise(b) ==
  ViewRowsOf(b, [view_def[1] EXCEPT !.overrides_available = FALSE],
             category_rules, category_overrides)[1].category

\* C4 as stated: a row of the ledger takes the category of an override
\* exactly when an override is active, its regex finds a match in the
\* description text, its date is unset or the row's and its amount is unset
\* or the row's in cents; with no such override the row is resolved as if
\* the table of overrides held nothing.
C4_OverrideMatch ==
  (ViewIsCurrent /\ category_overrides.present) =>
    \A i \in 1..Len(transactions) :
      LET m == { o \in Range(category_overrides.rows) : C4Matches(BaseOf(i), o) }
      IN \A v \in ViewOf(i) :
           IF m # {} THEN v.category \in { o.category : o \in m }
           ELSE v.category = C4Otherwise(BaseOf(i))

\* category_dim flags a category as a transfer: it lists the category, with
\* is_transfer true wherever it lists it.
C5Flagged(cat) ==
  /\ category_dim.present
  /\ category_dim.has_flag
  /\ \E k \in 1..Len(category_dim.rows) : category_dim.rows[k].category = cat
  /\ \A k \in 1..Len(category_dim.rows) :
       category_dim.rows[k].category = cat => category_dim.rows[k].is_transfer = Some(TRUE)

\* The rows of the view whose category is not flagged as a transfer.
C5NotTransfers == SelectSeq(view_rows, LAMBDA v : ~C5Flagged(v.category))

\* C5: the tables build_rollups has just built are the tables it builds
\* from the view without the rows whose category category_dim flags as a
\* transfer: such a row adds nothing to income, spending and net_cashflow of
\* monthly_cashflow nor to actual_signed and spending of
\* monthly_actuals_by_category, in any month.
C5_TransfersAddNothing ==
  last_op = "build_rollups" =>
    /\ monthly_cashflow = CashflowOf(JoinedWithDim(C5NotTransfers, category_dim))
    /\ monthly_actuals = ActualsOf(JoinedWithDim(C5NotTransfers, category_dim))

\* The tables are built from a view that shows a row of a flagged category
\* and a row of another one.
C5_Witness ==
  /\ last_op = "build_rollups"
  /\ \E k \in 1..Len(view_rows) : C5Flagged(view_rows[k].category)
  /\ C5NotTransfers # <<>>
  /\ monthly_cashflow # <<>>

\* Every row of the raw files that has a date is in a normalized file.
C7AllNormalized ==
  \A f \in DOMAIN raw_files :
    \A k \in 1..Len(parse_chase_generic(raw_files[f])) :
      DupeKey(parse_chase_generic(raw_files[f])[k]) \in ExistingDupeKeys(norm_files)

\* The rows of the ledger that hold a raw row.
C7Stored(r) ==
  { k \in 1..Len(transactions) :
      /\ transactions[k].date = r.date[1]
      /\ transactions[k].account_id = AcctChecking
      /\ transactions[k].amount_cents = r.amount[1]
      /\ transactions[k].description = Trim(r.description) }

\* C7 as stated: once normalize_all has taken in every raw row and the
\* loader has run over the normalized files, two identical rows of one raw
\* file are two rows of the ledger with two identities.
C7_IdenticalRowsBothStored ==
  (run.pc = "report" /\ C7AllNormalized) =>
    \A f \in DOMAIN raw_files :
      \A i, j \in 1..Len(raw_files[f]) :
        (i < j /\ raw_files[f][i] = raw_files[f][j] /\ raw_files[f][i].date # None) =>
          Cardinality({ transactions[k].txn_id : k \in C7Stored(raw_files[f][i]) }) >= 2

\* The category the source carried for a row of the ledger: the cell of the
\* raw row it was read from.
C8SourceCategory(t) ==
  LET cats == { CsvCell(r.category) :
                  r \in { x \in UNION { Range(raw_files[f]) : f \in DOMAIN raw_files } :
                            /\ x.date = Some(t.date)
                            /\ x.amount = Some(t.amount_cents)
                            /\ Trim(x.description) = t.description } }
  IN CHOOSE c \in cats : TRUE

\* C8 as stated: when build_rollups has run, every row of the ledger is
\* shown with the category the chain yields from the overrides and the rules
\* of the tables and the category its source carried; in particular a row
\* whose source carried none and that no rule of the table matches is not
\* shown with the category of a rule that is gone.
C8_EditsReResolve ==
  last_op = "build_rollups" =>
    \A i \in 1..Len(transactions) :
      \A v \in ViewOf(i) :
        v.category =
          ViewRowsOf([BaseOf(i) EXCEPT !.base_category = C8SourceCategory(transactions[i])],
                     view_def[1], category_rules, category_overrides)[1].category

\* ---------------------------------------------------------------------------
\* C11.  The identities of the ledger never become fewer: whatever script
\* runs, a loader's merge, a change of the table's columns, the rollup build
\* or the reload of Temp/temp.py, every txn_id stored before the step is
\* stored after it.
C11_IdentitiesNeverShrink ==
  [][Ids(transactions) \subseteq Ids(transactions')]_vars

\* ---------------------------------------------------------------------------
\* C12.  A row that is ingested again under an identity the ledger holds
\* replaces the stored row's amount, description, memo, tags and category
\* and adds no row, whichever loader writes the table: once load_csv.py has
\* run, every row of the sample file is stored as the file has it now, each
\* identity once.
C12_ReingestUpdatesInPlace ==
  last_op = "load_csv" =>
    LET batch == normalize(sample_csv.rows)
    IN /\ \A k \in 1..Len(batch) : \E i \in 1..Len(transactions) : transactions[i] = batch[k]
       /\ UniqueIds(transactions)

\* ---------------------------------------------------------------------------
\* C13.  A file of the normalized directory that lacks a required column
\* stores nothing, and the other files of the run are merged all the same,
\* those listed before it and those listed after it: when a run of the
\* loader has ended, every row of every file that has the required columns
\* is stored.
C13_OtherFilesStillMerged ==
  (last_op = "load_transactions" /\ run.pc \in { "report", "failed" }) =>
    \A p \in DOMAIN norm_files :
      missing(norm_files[p]) = {} =>
        Ids(StageRows(norm_files[p])) \subseteq Ids(transactions)

\* ---------------------------------------------------------------------------
\* C14.  A row whose date does not parse or whose amount is no number is
\* not stored, is left out of the rows the run reports as processed, and
\* does not keep the other rows of its file from being stored: when a run
\* has reported, no stored row has an amount that did not parse, the
\* reported count is the count of the well-formed rows of the files, and
\* every well-formed row is stored.
C14WellFormed(file) ==
  SelectSeq(flexible_rename(file), LAMBDA r : r.date # None /\ r.amount # None)

C14_BadRowsSkipped ==
  (last_op = "load_transactions" /\ run.pc = "report") =>
    /\ \A i \in 1..Len(transactions) : transactions[i].amount # None
    /\ run.total_rows = Sum([k \in 1..Len(csvs) |-> Len(C14WellFormed(norm_files[csvs[k]]))])
    /\ \A p \in DOMAIN norm_files :
         Ids(StageRows(C14WellFormed(norm_files[p]))) \subseteq Ids(transactions)

\* ---------------------------------------------------------------------------
\* C15.  Two runs of the loader at one time: when their batches have no
\* identity in common both are merged and every row of both is stored; when
\* they have one in common the stored row is the row of one of the two
\* batches, column for column.  Stated once both processes have ended.
C15Both(i) ==
  LET mine == OutCols(StageRows(norm_files[csvs[1]]))
      theirs == OutCols(StageRows(second.batch))
  IN \E k \in 1..Len(mine) + Len(theirs) :
       transactions[i] = (mine \o theirs)[k]

C15_ConcurrentRuns ==
  (run.pc = "report" /\ second.pc # "none") =>
    LET mine == Ids(StageRows(norm_files[csvs[1]]))
        theirs == Ids(StageRows(second.batch))
    IN /\ mine \cap theirs = {} => (mine \cup theirs) \subseteq Ids(transactions)
       /\ \A i \in 1..Len(transactions) :
            transactions[i].txn_id \in mine \cap theirs => C15Both(i)

\* ---------------------------------------------------------------------------
\* C16.  In a file in which no two rows agree on (date, account_id,
\* amount_cents, merchant_norm), the identity of a row does not depend on
\* where in the file the row stands: the loader gives each row of every
\* reordering of the file the identity it gave the row in the file it has
\* staged.
C16NoTwins(frame) ==
  \A i, j \in 1..Len(frame) : GroupKey(frame[i]) = GroupKey(frame[j]) => i = j

C16Reordered(file, o) == [i \in 1..Len(file) |-> file[o[i]]]

C16SameIds(staged, restaged, o) ==
  \A i \in 1..Len(restaged) : restaged[i].txn_id = staged[o[i]].txn_id

C16_OrderIndependentIds ==
  \A p \in DOMAIN norm_files :
    (df = StageRows(norm_files[p]) /\ C16NoTwins(df)) =>
      \A o \in Orders(1..Len(norm_files[p])) :
        C16SameIds(df, StageRows(C16Reordered(norm_files[p], o)), o)

\* A file of two rows of different keys has been staged.
C16_Witness ==
  /\ run.pc = "loop" /\ run.i = 2
  /\ Len(df) = 2
  /\ C16NoTwins(df)
  /\ df = StageRows(norm_files[csvs[1]])

\* ---------------------------------------------------------------------------
\* C17.  A rule with an account scope or a sign scope determines the category
\* of a transaction only if the scope fits the transaction: wherever the
\* view takes the category of a row from the rules, every rule the view may
\* have selected for the row has an account_id that is empty or the row's,
\* and a sign that is not 'positive' on an amount <= 0 nor 'negative' on an
\* amount >= 0.
C17KeptRules == SelectSeq(category_rules.rows, LAMBDA r : r.category # NULL /\ Trim(r.category) # <<>>)

C17InScope(b, r) ==
  /\ (r.account_id # NULL /\ Trim(r.account_id) # <<>>) => Trim(r.account_id) = b.account_id
  /\ (r.sign # NULL /\ Trim(Lower(r.sign)) = <<"p","o","s","i","t","i","v","e">>)
       => b.amount_cents > 0
  /\ (r.sign # NULL /\ Trim(Lower(r.sign)) = <<"n","e","g","a","t","i","v","e">>)
       => b.amount_cents < 0

\* The rules of the CTE that may stand first in hits for a row of base.
C17Selected(b, cte) ==
  { i \in 1..Len(cte) :
      /\ HitsJoin(b, cte[i])
      /\ \A j \in 1..Len(cte) : HitsJoin(b, cte[j]) => ~RuleBefore(cte[j], cte[i]) }

C17_ScopedRules ==
  (view_def # None /\ view_def[1].rules_ok /\ category_rules.present) =>
    \A n \in 1..Len(transactions) :
      (~view_def[1].overrides_available \/ OverrideCategories(BaseOf(n)) = {}) =>
        \A i \in C17Selected(BaseOf(n), RulesCTE(category_rules)) :
          C17InScope(BaseOf(n), C17KeptRules[i])

\* ---------------------------------------------------------------------------
\* C18.  When two or more active overrides match a transaction, the view is
\* still defined and shows the transaction exactly once, with the smallest
\* of the categories of the matching overrides; the rows of the view are the
\* same for every order of the rows of category_overrides.
C18Matching(b) ==
  { k \in 1..Len(category_overrides.rows) : OvJoin(b, category_overrides.rows[k]) }

C18Smallest(cats) == CHOOSE c \in cats : \A d \in cats : c = d \/ StrLess(c, d)

C18Shown(id) == { k \in 1..Len(view_rows) : view_rows[k].txn_id = id }

C18Reordered(tbl, o) == [tbl EXCEPT !.rows = [i \in 1..Len(tbl.rows) |-> tbl.rows[o[i]]]]

C18_AmbiguousOverrides ==
  (view_def # None /\ view_def[1].overrides_available /\ category_overrides.present) =>
    /\ \A n \in 1..Len(transactions) :
         (Cardinality(C18Matching(BaseOf(n))) >= 2 /\ OverrideCategories(BaseOf(n)) # {}) =>
           /\ Cardinality(C18Shown(transactions[n].txn_id)) = 1
           /\ \A k \in C18Shown(transactions[n].txn_id) :
                view_rows[k].category = C18Smallest(OverrideCategories(BaseOf(n)))
    /\ \A o \in Orders(1..Len(category_overrides.rows)) :
         ViewRows(view_def[1], transactions, category_rules,
                  C18Reordered(category_overrides, o)) = view_rows

\* The view is defined over a table of overrides whose first row is an
\* active override that matches the first transaction and whose second row
\* is one too, with a smaller category, which the view shows.
C18_Witness ==
  /\ view_def # None /\ view_def[1].overrides_available /\ category_overrides.present
  /\ last_op = "build_rollups"
  /\ C18Matching(BaseOf(1)) = {1, 2}
  /\ StrLess(category_overrides.rows[2].category, category_overrides.rows[1].category)
  /\ \E k \in C18Shown(transactions[1].txn_id) :
       view_rows[k].category = category_overrides.rows[2].category

\* ---------------------------------------------------------------------------
\* C19.  A category without a row in category_dim, and every category when
\* there is no category_dim or no column is_transfer in it, is not a
\* transfer: after build_rollups has run, each row the view shows with such
\* a category is in a row of monthly_cashflow for its month and in a row of
\* monthly_actuals_by_category for its month and category.
C19NotClassified(cat) ==
  \/ ~category_dim.present
  \/ ~category_dim.has_flag
  \/ \A k \in 1..Len(category_dim.rows) : category_dim.rows[k].category # cat

C19InCashflow(v) ==
  \E i \in 1..Len(monthly_cashflow) : monthly_cashflow[i].month = MonthStr(v.date)

C19InActuals(v) ==
  \E i \in 1..Len(monthly_actuals) :
    /\ monthly_actuals[i].month = MonthStr(v.date)
    /\ monthly_actuals[i].category = IF v.category = NULL THEN Uncategorized ELSE v.category

C19_MissingDimIsNotTransfer ==
  last_op \in { "build_rollups", "build_rollups_failed" } =>
    \A k \in 1..Len(view_rows) :
      C19NotClassified(view_rows[k].category) =>
        C19InCashflow(view_rows[k]) /\ C19InActuals(view_rows[k])

\* ---------------------------------------------------------------------------
\* C20.  No value of a column of a source file is stored as the is_transfer
\* of a transaction: whatever the files of a run hold, the rows of the
\* ledger carry no transfer flag of their own.
C20_NoStoredTransferFlag ==
  \A i \in 1..Len(transactions) : transactions[i].is_transfer = FALSE

\* ---------------------------------------------------------------------------
\* C21.  Every row the loader stores has amount_cents = round(amount * 100)
\* of its stored amount, and the stored amount of a row whose amount is
\* written with a currency symbol, a thousands separator or in parentheses
\* is the signed amount that was meant.
C21Bare(t) == Trim(Replace(Replace(t, "$"), ","))

\* The amount a cell means, in cents: the number itself, or the number
\* written in the text, negative when it stands in parentheses.
C21Intended(x) ==
  IF x = None \/ ~IsStr(x) THEN x
  ELSE IF Len(C21Bare(x[2])) > 2 /\ Head(C21Bare(x[2])) = "("
          /\ C21Bare(x[2])[Len(C21Bare(x[2]))] = ")"
    THEN SignedCents(TRUE, float(SubSeq(C21Bare(x[2]), 2, Len(C21Bare(x[2])) - 1)))
  ELSE float(C21Bare(x[2]))

C21Stored(src, staged) ==
  \A k \in 1..Len(staged) :
    C21Intended(src[k].amount) # None =>
      \E i \in 1..Len(transactions) :
        /\ transactions[i].txn_id = staged[k].txn_id
        /\ transactions[i].amount = C21Intended(src[k].amount)
        /\ transactions[i].amount_cents = C21Intended(src[k].amount)[1]

C21_CentsOfStoredAmount ==
  (last_op = "load_transactions" /\ run.pc = "report") =>
    \A p \in DOMAIN norm_files :
      missing(norm_files[p]) = {} =>
        C21Stored(DatedRows(flexible_rename(norm_files[p])), StageRows(norm_files[p]))

\* ---------------------------------------------------------------------------
\* C22.  The text a rule is tested against is the merchant_norm of the
\* transaction: in the defined view a rule is joined to a row exactly when
\* its pattern is found in the row's merchant_norm, as a substring for
\* 'contains' and by a regex search for 'regex'.
C22OnMerchantNorm(n) == [BaseOf(n) EXCEPT !.desc_src = transactions[n].merchant_norm]

C22SameMatches(n, cte) ==
  \A k \in 1..Len(cte) : HitsJoin(BaseOf(n), cte[k]) <=> HitsJoin(C22OnMerchantNorm(n), cte[k])

C22_RulesTestMerchantNorm ==
  (view_def # None /\ view_def[1].rules_ok /\ category_rules.present) =>
    \A n \in 1..Len(transactions) : C22SameMatches(n, RulesCTE(category_rules))

\* ---------------------------------------------------------------------------
\* C23.  After the balances loader and then build_rollups, every balance of
\* an account of type Liability has a balance_norm <= 0, entered as a
\* positive or as a negative number, and the liabilities of its month in
\* monthly_net_worth are the sum of these balances.
C23IsLiability(r) == r.type # NULL /\ Lower(r.type) = Lower(TypeLiability)

C23Liabilities(be, m) ==
  Sum([i \in 1..Len(be) |->
         IF be[i].month = m /\ C23IsLiability(be[i]) /\ be[i].include_networth
           THEN be[i].balance_norm ELSE 0])

C23Holds(be) ==
  /\ \A i \in 1..Len(be) : C23IsLiability(be[i]) => be[i].balance_norm <= 0
  /\ \A k \in 1..Len(monthly_net_worth) :
       monthly_net_worth[k].liabilities = C23Liabilities(be, monthly_net_worth[k].month)

C23_LiabilitiesNotPositive ==
  (last_op = "build_rollups" /\ balance_snapshot.present /\ account_dim.present) =>
    C23Holds(balances_enriched(balance_snapshot.rows, account_dim.rows))

\* ---------------------------------------------------------------------------
\* C24.  Whatever runs of normalize_all have been made, no two rows of the
\* normalized files of the route have the same dupe key (date, account_id,
\* amount, normalized description).
C24Places == { <<p, i>> : p \in DOMAIN norm_files, i \in 1..MaxRows + MaxRows }

C24Rows == { x \in C24Places : x[2] <= Len(norm_files[x[1]]) }

C24_NoDupeKeyTwice ==
  \A x, y \in C24Rows :
    DupeKey(norm_files[x[1]][x[2]]) = DupeKey(norm_files[y[1]][y[2]]) => x = y

\* ---------------------------------------------------------------------------
\* C26.  A row that a run of normalize_all has written to a normalized file
\* is in a normalized file after every later run: no step takes a row out
\* of the normalized files.
C26Rows(files) == UNION { Range(files[p]) : p \in DOMAIN files }

C26_WrittenRowsStay == [][C26Rows(norm_files) \subseteq C26Rows(norm_files')]_vars

\* ---------------------------------------------------------------------------
\* The keys and the snapshots of the files that load_positions read.
C25Keys == { PosKey(x.row) : x \in Concatenated(pos_files) }

C25Snapshots == { Snapshot(x.row) : x \in Concatenated(pos_files) }

\* The table holds exactly one row of the key k, with the values the newest
\* file of that key gives it.
C25NewestRow(k) ==
  /\ Cardinality({ r \in positions : PosKey(r) = k }) = 1
  /\ \E r \in positions, x \in Concatenated(pos_files) :
       /\ PosKey(r) = k
       /\ x.row = r
       /\ \A y \in Concatenated(pos_files) : PosKey(y.row) = k => y.mtime <= x.mtime

C25Exact ==
  /\ \A k \in C25Keys : C25NewestRow(k)
  /\ \A r \in positions : Snapshot(r) \in C25Snapshots => PosKey(r) \in C25Keys
  /\ { r \in positions : Snapshot(r) \notin C25Snapshots }
       = { r \in pos_txn.began : Snapshot(r) \notin C25Snapshots }

\* C25: once load_all has committed, every staged snapshot (as_of_date,
\* account_id) holds exactly the staged symbols with the values of the newest
\* file of each symbol, the rows of every other snapshot are the rows from
\* before the run, and the committed table changes in the COMMIT step only,
\* so that the upsert and the anti-delete become visible together.
C25_SnapshotExact ==
  /\ [](pos_txn.pc = "committed" => C25Exact)
  /\ [][positions' # positions =>
          /\ pos_txn.pc = "deleted"
          /\ pos_txn'.pc = "committed"
          /\ positions' = pos_txn.rows]_vars

\* A run has committed over two files of different mtimes that both give one
\* symbol: a symbol of a staged snapshot was removed, a row was updated, and a
\* row of a snapshot that was not staged is still there.
C25_Witness ==
  /\ pos_txn.pc = "committed"
  /\ \E x \in Concatenated(pos_files), y \in Concatenated(pos_files) :
       PosKey(x.row) = PosKey(y.row) /\ x.mtime < y.mtime /\ x.row # y.row
  /\ \E r \in pos_txn.began : Snapshot(r) \in C25Snapshots /\ PosKey(r) \notin C25Keys
  /\ \E r \in pos_txn.began, n \in positions : PosKey(r) = PosKey(n) /\ r # n
  /\ \E r \in positions : Snapshot(r) \notin C25Snapshots

\* ---------------------------------------------------------------------------
\* The rows of the view, and of the ledger, with the transaction id.
C27Shown(id) == { k \in 1..Len(view_rows) : view_rows[k].txn_id = id }

C27Stored(id) == { i \in 1..Len(transactions) : transactions[i].txn_id = id }

\* The rules and the overrides that match a row of base.
C27Rules(b) ==
  IF category_rules.present
    THEN { k \in 1..Len(RulesCTE(category_rules)) : HitsJoin(b, RulesCTE(category_rules)[k]) }
    ELSE {}

C27Overrides(b) ==
  IF category_overrides.present
    THEN { k \in 1..Len(category_overrides.rows) : OvJoin(b, category_overrides.rows[k]) }
    ELSE {}

\* C27: however the view is defined (with or without rules, with or without
\* overrides) and however many rules and overrides match a row, the view
\* transactions_with_category has as many rows as transactions, and shows
\* each transaction id as many times as the table holds it: one row of the
\* view per row of transactions.
C27_OneRowPerTransaction ==
  view_def # None =>
    /\ Len(view_rows) = Len(transactions)
    /\ \A i \in 1..Len(transactions) :
         Cardinality(C27Shown(transactions[i].txn_id))
           = Cardinality(C27Stored(transactions[i].txn_id))

\* The view is defined with rules and overrides over a ledger of two rows, one
\* of which matches two rules and two overrides.
C27_Witness ==
  /\ ViewIsCurrent
  /\ view_def[1].rules_ok /\ view_def[1].overrides_available
  /\ Len(transactions) = 2
  /\ \E i \in 1..Len(transactions) :
       /\ Cardinality(C27Rules(BaseOf(i))) >= 2
       /\ Cardinality(C27Overrides(BaseOf(i))) >= 2

\* ---------------------------------------------------------------------------
\* C28: when a reload of a rules-side table fails on its INSERT, after its
\* DELETE, the table holds the rows it held before the script ran: account_dim
\* in load_csv_table, category_overrides in its reload.
C28_FailedReloadKeepsRows ==
  [][/\ last_op' = "load_rules_account_dim_failed" => account_dim' = account_dim
     /\ last_op' = "load_rules_overrides_failed" => category_overrides' = category_overrides]_vars

\* ---------------------------------------------------------------------------
\* The rows the rollups sum when each row of the view is taken once.
C29Once(rows) ==
  [i \in 1..Len(rows) |->
     [month |-> MonthStr(rows[i].date), amt |-> rows[i].amount_cents,
      category |-> rows[i].category, is_transfer |-> None]]

\* C29: whatever category_dim holds when build_rollups has run (loaded by
\* load_category_dim, or by the fallback of build_rollups, from a file that
\* may list a category twice), every row of the view whose category is not
\* flagged as a transfer is summed exactly once in monthly_cashflow and in
\* monthly_actuals_by_category.
C29_ContributesOnce ==
  last_op = "build_rollups" =>
    /\ monthly_cashflow = CashflowOf(C29Once(C5NotTransfers))
    /\ monthly_actuals = ActualsOf(C29Once(C5NotTransfers))

\* ---------------------------------------------------------------------------
\* ROW_NUMBER() OVER () has no ORDER BY: the numbers one reference to the CTE
\* base gives the n rows of transactions, the reference of the final SELECT
\* being taken to number them in table order.
Numberings(n) == { p \in [1..n -> 1..n] : \A i, j \in 1..n : p[i] = p[j] => i = j }

\* The row of base that a reference numbering the rows by p calls rid.
NumberedRow(base, p, rid) == base[CHOOSE j \in 1..Len(base) : p[j] = rid]

\* The row the final SELECT yields for the row b of base when the reference
\* of hits gives its rid to the row bh and the reference of ov to the row bo.
ViewRowsOfNumbered(b, bh, bo, def, rules_tbl, ov_tbl) ==
  LET hs == IF def.rules_ok
              THEN LeftJoined(SelectSeq(HitsRows(bh, RulesCTE(rules_tbl)), LAMBDA h : h.rn = 1),
                              [rid |-> b.rid, rule_category |-> NULL, rn |-> 1])
              ELSE <<[rid |-> b.rid, rule_category |-> NULL, rn |-> 1]>>
      os == IF def.overrides_available
              THEN LeftJoined(SelectSeq(OvRows(bo, ov_tbl), LAMBDA o : o.rn = 1),
                              [rid |-> b.rid, override_category |-> NULL, rn |-> 1])
              ELSE <<[rid |-> b.rid, override_category |-> NULL, rn |-> 1]>>
  IN [category |-> ResolvedCategory(os[1].override_category, hs[1].rule_category,
                                    b.base_category),
      txn_id   |-> b.txn_id]

\* The category the view shows for the i-th row of transactions under the
\* numberings p of hits and q of ov.
C30Shown(i, p, q) ==
  LET base == BaseCTE(transactions, view_def[1].has_tx_category)
  IN ViewRowsOfNumbered(base[i], NumberedRow(base, p, i), NumberedRow(base, q, i),
                        view_def[1], category_rules, category_overrides).category

\* The category resolved from the i-th row's own description, date and
\* amount.
C30Own(i) ==
  LET base == BaseCTE(transactions, view_def[1].has_tx_category)
  IN ViewRowsOfNumbered(base[i], base[i], base[i],
                        view_def[1], category_rules, category_overrides).category

\* C30: the category of a row of the view is resolved from that row's own
\* description, date and amount, however each of the references to base
\* (in ov, in hits, in the final SELECT) numbers the rows of transactions.
C30_OwnRowResolves ==
  ViewIsCurrent =>
    \A p \in Numberings(Len(transactions)), q \in Numberings(Len(transactions)) :
      \A i \in 1..Len(transactions) : C30Shown(i, p, q) = C30Own(i)

====
